---- MODULE Spec2Model ----
(***************************************************************************)
(* A model of the CarePal chatbot core: the embedding similarity gate and  *)
(* the intent classifiers (src/intent_classifier.py), the ANC reminder     *)
(* scheduler (src/llm_handler.py) and the per-turn pipeline                *)
(* (src/chatbot_app.py).                                                   *)
(*                                                                         *)
(* Conventions.  Similarities and confidences are floats in [0, 1] in the  *)
(* code; here they are integers in hundredths (0.6 is 60).  Dates are day  *)
(* numbers relative to today: a date field holds the number of days it     *)
(* lies before today (negative: after today), a computed date holds the    *)
(* number of days it lies after today.  External collaborators (encoder,   *)
(* BERT models, Gemini) are inputs chosen nondeterministically.            *)
(***************************************************************************)
EXTENDS Integers, Sequences, FiniteSets, TLC

VARIABLES
    \* ---- src/intent_classifier.py: IntentClassifier ----
    similarities,        \* cosine_similarity(user_embedding, training_embeddings_by_intent[...]) of the current input, in index order
    encoder_fails,       \* sentence_model.encode raises for the current input
    domain_model,        \* "none" (not loaded), "ok", "raises"
    pregnancy_model,     \* "none" (not loaded), "ok", "raises"
    general_model,       \* "none" (not loaded), "ok", "raises"
    similarity_result,   \* what check_similarity returned last
    intent_result,       \* what classify_*_intent returned last
    domain_result,       \* what classify_domain returned last, and for which input
    \* ---- src/llm_handler.py: _calculate_anc_reminder ----
    llm_model,           \* LLMHandler.model: "none" (no API key), "ok"
    db_context,          \* the 'data' mapping handed to _calculate_anc_reminder
    anc_reminder,        \* what _calculate_anc_reminder returned last
    llm_response,        \* what generate_response returned last, with the prompt it built
    \* ---- src/chatbot_app.py: st.session_state and the turn ----
    authenticated,
    user_data,
    chat_history,
    contextual_recommendations,
    last_intent,
    last_turn,           \* log of the last process_user_message call: calls made, exception raised
    \* ---- src/database_handler.py, src/recommendation_engine.py ----
    files,               \* the CSV files of the Database directory, as loaded at start
    tables,              \* DatabaseHandler.tables
    pregnancy_knowledge, \* DatabaseHandler.pregnancy_knowledge
    context,             \* what the DatabaseHandler returned last
    recommendations      \* what the recommendation engine returned last

simVars  == <<similarities, encoder_fails, domain_model, pregnancy_model,
              general_model, similarity_result, intent_result, domain_result>>
ancVars  == <<llm_model, db_context, anc_reminder, llm_response>>
appVars  == <<authenticated, user_data, chat_history,
              contextual_recommendations, last_intent, last_turn>>
dataVars == <<files, tables, pregnancy_knowledge, context, recommendations>>
vars     == <<similarities, encoder_fails, domain_model, pregnancy_model,
              general_model, similarity_result, intent_result, domain_result,
              llm_model, db_context, anc_reminder, llm_response,
              authenticated, user_data, chat_history,
              contextual_recommendations, last_intent, last_turn,
              files, tables, pregnancy_knowledge, context, recommendations>>

(***************************************************************************)
(* Bounds of the model.                                                    *)
(***************************************************************************)
MaxIntents == 6      \* intents in the similarity index (the top-5 cut needs 6)

(***************************************************************************)
(* Program constants.                                                      *)
(***************************************************************************)
similarity_threshold == 60      \* IntentClassifier.__init__(similarity_threshold=0.6)
TopMatches           == 5       \* all_similarities[:5]
ConfidenceNoMatch    == 50      \* 'confidence': 0.5
ConfidenceError      == 10      \* 'confidence': 0.1

NoResult == [unset |-> TRUE]
None     == [none |-> TRUE]

(***************************************************************************)
(* Helpers.                                                                *)
(***************************************************************************)
Min(a, b) == IF a <= b THEN a ELSE b

RECURSIVE SeqMax(_)
SeqMax(s) ==
    IF Len(s) = 1 THEN s[1]
    ELSE LET m == SeqMax(Tail(s)) IN IF s[1] >= m THEN s[1] ELSE m

RECURSIVE SeqSum(_)
SeqSum(s) == IF s = <<>> THEN 0 ELSE s[1] + SeqSum(Tail(s))

(***************************************************************************)
(* The similarity index.  The intents of intent_merged.csv in first-seen    *)
(* order (a dict keeps insertion order); each input gives every intent a   *)
(* row of cosine similarities, one per training example.                   *)
(***************************************************************************)
IndexIntents == << "anc_tracker", "cek_data_customer", "reminder_kontrol_kehamilan",
                   "hasil_lab_ringkasan", "riwayat_persalinan", "jadwal_dokter",
                   "imunisasi_tracker", "riwayat_diagnosis" >>

\* Rows of example similarities an input can produce: below, at and above
\* the threshold, and a two-example row whose mean differs from its max.
SimilarityRows == { <<59>>, <<60>>, <<40, 80>> }

SimilarityMatrices(n) ==
    UNION { { [i \in 1..k |-> [intent |-> IndexIntents[i], sims |-> f[i]]] :
                f \in [1..k -> SimilarityRows] } : k \in 0..n }

\* lines 176-183: max and mean over the examples of one intent
intent_similarity(e) ==
    [intent          |-> e.intent,
     max_similarity  |-> SeqMax(e.sims),
     mean_similarity |-> SeqSum(e.sims) \div Len(e.sims)]

\* list.sort(key=max_similarity, reverse=True): stable, descending.
\* One element is placed after every element whose key is >= its own.
RECURSIVE InsertDescending(_, _)
InsertDescending(sorted, x) ==
    IF sorted = <<>> THEN <<x>>
    ELSE IF sorted[1].max_similarity >= x.max_similarity
         THEN <<sorted[1]>> \o InsertDescending(Tail(sorted), x)
         ELSE <<x>> \o sorted

RECURSIVE sort_by_max_similarity(_)
sort_by_max_similarity(s) ==
    IF s = <<>> THEN <<>>
    ELSE InsertDescending(sort_by_max_similarity(SubSeq(s, 1, Len(s) - 1)), s[Len(s)])

\* check_similarity with the threshold test written `>` instead of `>=`
check_similarity_strict(matrix, encodeFails) ==
    IF encodeFails
    THEN [is_valid |-> FALSE, max_similarity |-> 0, best_matches |-> <<>>]
    ELSE LET all_similarities == [i \in 1..Len(matrix) |-> intent_similarity(matrix[i])]
             sorted           == sort_by_max_similarity(all_similarities)
             best_matches     == SubSeq(sorted, 1, Min(TopMatches, Len(sorted)))
             max_similarity   == IF best_matches # <<>>
                                 THEN best_matches[1].max_similarity ELSE 0
         IN  [is_valid       |-> max_similarity > similarity_threshold,
              max_similarity |-> max_similarity,
              best_matches   |-> best_matches]

\* check_similarity whose except clause fails open: it lets the input through
check_similarity_fail_open(matrix, encodeFails) ==
    IF encodeFails
    THEN [is_valid |-> TRUE, max_similarity |-> 0, best_matches |-> <<>>]
    ELSE LET all_similarities == [i \in 1..Len(matrix) |-> intent_similarity(matrix[i])]
             sorted           == sort_by_max_similarity(all_similarities)
             best_matches     == SubSeq(sorted, 1, Min(TopMatches, Len(sorted)))
             max_similarity   == IF best_matches # <<>>
                                 THEN best_matches[1].max_similarity ELSE 0
         IN  [is_valid       |-> max_similarity >= similarity_threshold,
              max_similarity |-> max_similarity,
              best_matches   |-> best_matches]

\* check_similarity, lines 157-205
check_similarity(matrix, encodeFails) ==
    IF encodeFails
    THEN \* except Exception: lines 203-205
         [is_valid |-> FALSE, max_similarity |-> 0, best_matches |-> <<>>]
    ELSE LET all_similarities == [i \in 1..Len(matrix) |-> intent_similarity(matrix[i])]
             sorted           == sort_by_max_similarity(all_similarities)
             best_matches     == SubSeq(sorted, 1, Min(TopMatches, Len(sorted)))
             max_similarity   == IF best_matches # <<>>
                                 THEN best_matches[1].max_similarity ELSE 0
         IN  [is_valid       |-> max_similarity >= similarity_threshold,
              max_similarity |-> max_similarity,
              best_matches   |-> best_matches]

\* lines 428, 438: the per-domain default intent
default_intent(domain) ==
    IF domain = "KEHAMILAN" THEN "panduan_persiapan_persalinan" ELSE "cek_data_customer"

\* _fallback_intent_classification reading the key the dicts do have: the
\* best match of the whole index is returned, whatever the domain
_fallback_intent_classification_best_match(matrix, encodeFails, domain) ==
    LET result == check_similarity(matrix, encodeFails) IN
    IF result.best_matches # <<>>
    THEN [intent |-> result.best_matches[1].intent,
          confidence |-> result.best_matches[1].max_similarity,
          predicted_class |-> 0]
    ELSE [intent |-> default_intent(domain),
          confidence |-> ConfidenceNoMatch,
          predicted_class |-> 0]

\* _fallback_intent_classification, lines 398-444.  best_match is one of the
\* dicts check_similarity builds (keys intent, max_similarity,
\* mean_similarity); subscripting it with a key it lacks raises KeyError,
\* which the except clause of line 436 turns into the 0.1 default.
_fallback_intent_classification(matrix, encodeFails, domain) ==
    LET result == check_similarity(matrix, encodeFails) IN
    IF result.best_matches # <<>>
    THEN LET best_match == result.best_matches[1] IN
         IF "similarity" \in DOMAIN best_match
         THEN [intent |-> best_match.intent,
               confidence |-> best_match.similarity,
               predicted_class |-> 0]
         ELSE [intent |-> default_intent(domain),
               confidence |-> ConfidenceError,
               predicted_class |-> 0]
    ELSE [intent |-> default_intent(domain),
          confidence |-> ConfidenceNoMatch,
          predicted_class |-> 0]

(***************************************************************************)
(* The intent classifiers.  A loaded BERT model answers with torch.topk of *)
(* its softmax: two distinct class ids and their probabilities, highest    *)
(* first.                                                                  *)
(***************************************************************************)
MaxClassId == 11     \* class ids a model may emit: 0..MaxClassId

\* label_encoder.classes_ of model_hamil, lines 290-292
pregnancy_intents == << "anc_tracker", "imunisasi_tracker", "panduan_persiapan_persalinan",
                        "reminder_kontrol_kehamilan", "riwayat_persalinan",
                        "riwayat_suplemen_kehamilan" >>

\* general_intents, lines 359-371
general_intents == << "cek_data_customer", "cek_golongan_darah", "detail_dokter",
                      "detail_preskripsi_obat", "hasil_lab_detail", "hasil_lab_ringkasan",
                      "jadwal_dokter", "riwayat_berobat", "riwayat_diagnosis",
                      "riwayat_kondisi_fisik", "riwayat_preskripsi_obat" >>

\* top-2 probabilities of a softmax, highest first, summing to at most 1
ConfidencePairs == { <<90, 5>>, <<75, 25>>, <<60, 40>>, <<50, 50>> }

ModelOutputs ==
    { [classes |-> <<a, b>>, confidences |-> c] :
        <<a, b>> \in { p \in (0..MaxClassId) \X (0..MaxClassId) : p[1] # p[2] },
        c \in ConfidencePairs }

NoOutput == [classes |-> <<>>, confidences |-> <<>>]

\* what the model call of a classifier can yield in the given model state
OutputsOf(model) == IF model = "ok" THEN ModelOutputs ELSE {NoOutput}

\* lines 296-300: class id -> intent name through the label encoder
pregnancy_label(class_id) ==
    IF class_id < Len(pregnancy_intents)
    THEN pregnancy_intents[class_id + 1]
    ELSE "panduan_persiapan_persalinan"

\* general_label over the alphabetical order of the names with the two lab
\* intents exchanged: a label order that does not match the training data
general_label_reordered(class_id) ==
    IF class_id < Len(general_intents)
    THEN IF class_id = 4 THEN general_intents[6]
         ELSE IF class_id = 5 THEN general_intents[5]
         ELSE general_intents[class_id + 1]
    ELSE "cek_data_customer"

\* lines 376-379
general_label(class_id) ==
    IF class_id < Len(general_intents)
    THEN general_intents[class_id + 1]
    ELSE "cek_data_customer"

\* classify_pregnancy_intent with the rank taken from enumerate() as is (0, 1)
classify_pregnancy_intent_rank0(model, out, matrix, encodeFails) ==
    IF model # "ok"
    THEN _fallback_intent_classification(matrix, encodeFails, "KEHAMILAN")
    ELSE LET results == [i \in 1..Len(out.classes) |->
                            [intent     |-> pregnancy_label(out.classes[i]),
                             confidence |-> out.confidences[i],
                             rank       |-> i - 1,
                             class_id   |-> out.classes[i]]]
         IN  [intent      |-> results[1].intent,
              confidence  |-> results[1].confidence,
              predictions |-> results]

\* classify_pregnancy_intent, lines 256-320
classify_pregnancy_intent(model, out, matrix, encodeFails) ==
    IF model # "ok"
    THEN \* model, tokenizer or label encoder missing (line 267), or the
         \* model call raised (line 318)
         _fallback_intent_classification(matrix, encodeFails, "KEHAMILAN")
    ELSE LET results == [i \in 1..Len(out.classes) |->
                            [intent     |-> pregnancy_label(out.classes[i]),
                             confidence |-> out.confidences[i],
                             rank       |-> i,
                             class_id   |-> out.classes[i]]]
         IN  [intent      |-> results[1].intent,
              confidence  |-> results[1].confidence,
              predictions |-> results]

\* classify_general_intent, lines 322-396
classify_general_intent(model, out, matrix, encodeFails) ==
    IF model # "ok"
    THEN _fallback_intent_classification(matrix, encodeFails, "UMUM")
    ELSE LET results == [i \in 1..Len(out.classes) |->
                            [intent     |-> general_label(out.classes[i]),
                             confidence |-> out.confidences[i],
                             rank       |-> i]]
         IN  [intent      |-> results[1].intent,
              confidence  |-> results[1].confidence,
              predictions |-> results]

(***************************************************************************)
(* The classifier as a state machine: one input (its similarity matrix,    *)
(* whether its encoding fails) and the calls made on it.                   *)
(***************************************************************************)
CheckSimilarity ==
    /\ similarity_result' = check_similarity(similarities, encoder_fails)
    /\ UNCHANGED <<similarities, encoder_fails, domain_model, pregnancy_model,
                   general_model, intent_result, domain_result>>
    /\ UNCHANGED ancVars
    /\ UNCHANGED appVars
    /\ UNCHANGED dataVars

ClassifyPregnancyIntent ==
    /\ \E out \in OutputsOf(pregnancy_model) :
          intent_result' = [domain |-> "KEHAMILAN",
                            model_output |-> out,
                            result |-> classify_pregnancy_intent(pregnancy_model, out,
                                            similarities, encoder_fails)]
    /\ UNCHANGED <<similarities, encoder_fails, domain_model, pregnancy_model,
                   general_model, similarity_result, domain_result>>
    /\ UNCHANGED ancVars
    /\ UNCHANGED appVars
    /\ UNCHANGED dataVars

ClassifyGeneralIntent ==
    /\ \E out \in OutputsOf(general_model) :
          intent_result' = [domain |-> "UMUM",
                            model_output |-> out,
                            result |-> classify_general_intent(general_model, out,
                                            similarities, encoder_fails)]
    /\ UNCHANGED <<similarities, encoder_fails, domain_model, pregnancy_model,
                   general_model, similarity_result, domain_result>>
    /\ UNCHANGED ancVars
    /\ UNCHANGED appVars
    /\ UNCHANGED dataVars

IdleAnc ==
    /\ llm_model = "ok"
    /\ db_context = NoResult
    /\ anc_reminder = NoResult
    /\ llm_response = NoResult

\* no table loaded, nothing retrieved or recommended yet
IdleData ==
    /\ files = <<>>
    /\ tables = <<>>
    /\ pregnancy_knowledge = ""
    /\ context = NoResult
    /\ recommendations = NoResult

IdleApp ==
    /\ authenticated = FALSE
    /\ user_data = None
    /\ chat_history = <<>>
    /\ contextual_recommendations = <<>>
    /\ last_intent = ""
    /\ last_turn = NoResult

\* The intent models are missing or failing: every classification falls back.
InitSim ==
    /\ similarities \in SimilarityMatrices(MaxIntents)
    /\ encoder_fails \in BOOLEAN
    /\ domain_model = "none"
    /\ pregnancy_model \in {"none", "raises"}
    /\ general_model \in {"none", "raises"}
    /\ similarity_result = NoResult
    /\ intent_result = NoResult
    /\ domain_result = NoResult
    /\ IdleAnc
    /\ IdleApp
    /\ IdleData

NextSim == CheckSimilarity \/ ClassifyPregnancyIntent \/ ClassifyGeneralIntent

SpecSim == InitSim /\ [][NextSim]_vars

(***************************************************************************)
(* Properties of the similarity gate and of the fallback classification.   *)
(***************************************************************************)
SetMax(S) == CHOOSE m \in S : \A x \in S : x <= m

\* the largest similarity of the input to an example of the i-th intent
IntentMax(i) ==
    SetMax({ similarities[i].sims[j] : j \in 1..Len(similarities[i].sims) })

\* the per-intent maxima of the whole index
IndexMaxima == { IntentMax(i) : i \in 1..Len(similarities) }

\* an exception raised inside _fallback_intent_classification itself
FallbackLookupFails ==
    LET gate == check_similarity(similarities, encoder_fails) IN
    /\ gate.best_matches # <<>>
    /\ "similarity" \notin DOMAIN gate.best_matches[1]

\* C7: when the intent model is unavailable and the gate returns at least
\* one best match, the classification result carries the first best match's
\* intent, and as confidence that match's similarity value.
C7_FallbackTakesBestMatch ==
    LET gate == check_similarity(similarities, encoder_fails) IN
    (intent_result # NoResult /\ gate.best_matches # <<>>) =>
        /\ intent_result.result.intent = gate.best_matches[1].intent
        /\ intent_result.result.confidence = gate.best_matches[1].max_similarity

\* C8: the fallback returns the per-domain default intent with confidence
\* 0.5 exactly when the gate ran without error and matched nothing, and with
\* confidence 0.1 exactly when a hard error occurred (the encoder failed, or
\* another exception was raised).
C8_FallbackDefaultConfidence ==
    LET gate == check_similarity(similarities, encoder_fails) IN
    intent_result # NoResult =>
        LET r == intent_result.result IN
        /\ r.confidence = ConfidenceNoMatch
              <=> (~encoder_fails /\ gate.best_matches = <<>>)
        /\ r.confidence = ConfidenceError
              <=> (encoder_fails \/ FallbackLookupFails)
        /\ r.confidence \in {ConfidenceNoMatch, ConfidenceError}
              => r.intent = default_intent(intent_result.domain)

\* C9: is_valid holds exactly when the largest per-intent maximum reaches
\* the threshold (equality included); best_matches holds at most 5 intents
\* of the index in non-increasing order of max_similarity; the returned
\* max_similarity is that of the first best match, the maximum over all
\* intents of the index.
C9_GateVerdict ==
    (similarity_result # NoResult /\ ~encoder_fails) =>
        LET r  == similarity_result
            bm == similarity_result.best_matches
        IN
        /\ r.is_valid <=> (IndexMaxima # {} /\ SetMax(IndexMaxima) >= 60)
        /\ Len(bm) <= 5
        /\ \A i \in 1..(Len(bm) - 1) : bm[i].max_similarity >= bm[i + 1].max_similarity
        /\ \A i \in 1..Len(bm) :
              \E k \in 1..Len(similarities) :
                  /\ bm[i].intent = similarities[k].intent
                  /\ bm[i].max_similarity = IntentMax(k)
        /\ IndexMaxima # {} =>
              /\ bm # <<>>
              /\ r.max_similarity = bm[1].max_similarity
              /\ r.max_similarity = SetMax(IndexMaxima)

\* an index of six intents whose best match, not the first intent, sits
\* exactly on the threshold: five matches are kept and the input is valid
C9_Witness ==
    /\ similarity_result # NoResult
    /\ ~encoder_fails
    /\ Len(similarities) = 6
    /\ Len(similarity_result.best_matches) = 5
    /\ similarity_result.max_similarity = 60
    /\ similarity_result.is_valid
    /\ similarity_result.best_matches[1].intent # similarities[1].intent

\* C10: when encoding the input fails, check_similarity returns (it does not
\* raise) is_valid = false, max_similarity = 0.0 and no best match.
C10_EncoderFailure ==
    (similarity_result # NoResult /\ encoder_fails) =>
        /\ similarity_result.is_valid = FALSE
        /\ similarity_result.max_similarity = 0
        /\ similarity_result.best_matches = <<>>

\* the encoder failed on an input the index would have accepted
C10_Witness ==
    /\ encoder_fails
    /\ similarity_result # NoResult
    /\ IndexMaxima # {}
    /\ SetMax(IndexMaxima) >= similarity_threshold

(***************************************************************************)
(* The ANC reminder scheduler, LLMHandler._calculate_anc_reminder.         *)
(*                                                                         *)
(* Records come from pandas (DataFrame.to_dict('records') of a read_csv    *)
(* table).  A date column holds strings; a cell is                         *)
(*   "date"      a well-formed '%Y-%m-%d' string, `days` days before today *)
(*   "empty"     the key is absent or the value is '' or None (falsy)      *)
(*   "nan"       an empty CSV cell: float nan, truthy and not a string     *)
(*   "malformed" a string strptime rejects with ValueError                 *)
(***************************************************************************)
MaxWeek       == 42    \* usia_kehamilan of a visit: 0..MaxWeek
MaxDays       == 30    \* a visit lies at most MaxDays days before today
MaxFutureDays == 2     \* ... and at most MaxFutureDays days after today
MaxLmpDays    == 72    \* tanggal_hpht lies 0..MaxLmpDays days before today

DateStr(d) == [kind |-> "date", days |-> d]
EmptyStr   == [kind |-> "empty", days |-> 0]
NaNCell    == [kind |-> "nan", days |-> 0]
Malformed  == [kind |-> "malformed", days |-> 0]

NaNStatus  == "<nan>"  \* status_kehamilan of an empty CSV cell (float nan)

\* str.lower() on the status values of the model
Lower(s) ==
    CASE s = "Berjalan" -> "berjalan"
      [] s = "AKTIF"    -> "aktif"
      [] s = "Selesai"  -> "selesai"
      [] OTHER          -> s

\* int(x / 7) for an integer x: Python's int() truncates toward zero
IntDiv7(x) == IF x >= 0 THEN x \div 7 ELSE 0 - ((0 - x) \div 7)

\* line 342
active_statuses == {"berjalan", "aktif", "ongoing"}

\* lines 328-333: the first delivery of the pregnancy, if any
RECURSIVE find_delivery(_, _)
find_delivery(deliveries, pregnancy_id) ==
    IF deliveries = <<>> THEN <<>>
    ELSE IF deliveries[1].id_kehamilan = pregnancy_id THEN <<deliveries[1]>>
    ELSE find_delivery(Tail(deliveries), pregnancy_id)

\* first_visit_reminder without the `except ValueError` of line 382: a
\* malformed tanggal_hpht reaches the except of line 496
first_visit_reminder_uncaught(current_pregnancy) ==
    LET hpht == current_pregnancy.tanggal_hpht IN
    IF hpht.kind = "empty"
    THEN [message |-> "first_visit_guideline"]
    ELSE IF hpht.kind = "nan" \/ hpht.kind = "malformed"
    THEN [message |-> "error"]
    ELSE LET days_pregnant  == hpht.days
             weeks_pregnant == IntDiv7(days_pregnant)
         IN  IF weeks_pregnant >= 8
             THEN [message |-> "first_visit_now", weeks_pregnant |-> weeks_pregnant,
                   next_visit_date |-> 1]
             ELSE [message |-> "first_visit_week8", weeks_pregnant |-> weeks_pregnant,
                   next_visit_date |-> (8 * 7) - days_pregnant]

\* lines 347-392: no ANC visit yet
first_visit_reminder(current_pregnancy) ==
    LET hpht == current_pregnancy.tanggal_hpht IN
    IF hpht.kind = "empty" \/ hpht.kind = "malformed"
    THEN \* `if hpht_str:` is false, or strptime raised ValueError (line 382)
         [message |-> "first_visit_guideline"]
    ELSE IF hpht.kind = "nan"
    THEN \* strptime(nan, ...) raises TypeError: the except of line 496
         [message |-> "error"]
    ELSE LET days_pregnant  == hpht.days
             weeks_pregnant == IntDiv7(days_pregnant)
         IN  IF weeks_pregnant >= 8
             THEN [message |-> "first_visit_now", weeks_pregnant |-> weeks_pregnant,
                   next_visit_date |-> 1]
             ELSE [message |-> "first_visit_week8", weeks_pregnant |-> weeks_pregnant,
                   next_visit_date |-> (8 * 7) - days_pregnant]

\* visit_interval whose overdue branches keep the target of the cadence,
\* last week + cadence, which then lies at or before the current week
visit_interval_behind(current_pregnancy_weeks, last_pregnancy_weeks) ==
    LET weeks_since_last == current_pregnancy_weeks - last_pregnancy_weeks IN
    IF current_pregnancy_weeks <= 12
    THEN [target_weeks |-> 13, interval_name |-> "memasuki trimester 2"]
    ELSE IF current_pregnancy_weeks <= 28
    THEN IF weeks_since_last >= 4
         THEN [target_weeks |-> last_pregnancy_weeks + 4,
               interval_name |-> "kontrol trimester 2 (terlambat)"]
         ELSE [target_weeks |-> last_pregnancy_weeks + 4,
               interval_name |-> "kontrol trimester 2"]
    ELSE IF current_pregnancy_weeks <= 36
    THEN IF weeks_since_last >= 2
         THEN [target_weeks |-> last_pregnancy_weeks + 2,
               interval_name |-> "kontrol trimester 3 (terlambat)"]
         ELSE [target_weeks |-> last_pregnancy_weeks + 2,
               interval_name |-> "kontrol trimester 3"]
    ELSE IF weeks_since_last >= 1
         THEN [target_weeks |-> last_pregnancy_weeks + 1,
               interval_name |-> "kontrol menjelang persalinan (terlambat)"]
         ELSE [target_weeks |-> last_pregnancy_weeks + 1,
               interval_name |-> "kontrol menjelang persalinan"]

\* visit_interval with the trimester-2 overdue test written `> 4`
visit_interval_late(current_pregnancy_weeks, last_pregnancy_weeks) ==
    LET weeks_since_last == current_pregnancy_weeks - last_pregnancy_weeks IN
    IF current_pregnancy_weeks <= 12
    THEN [target_weeks |-> 13, interval_name |-> "memasuki trimester 2"]
    ELSE IF current_pregnancy_weeks <= 28
    THEN IF weeks_since_last > 4
         THEN [target_weeks |-> current_pregnancy_weeks,
               interval_name |-> "kontrol trimester 2 (terlambat)"]
         ELSE [target_weeks |-> last_pregnancy_weeks + 4,
               interval_name |-> "kontrol trimester 2"]
    ELSE IF current_pregnancy_weeks <= 36
    THEN IF weeks_since_last >= 2
         THEN [target_weeks |-> current_pregnancy_weeks,
               interval_name |-> "kontrol trimester 3 (terlambat)"]
         ELSE [target_weeks |-> last_pregnancy_weeks + 2,
               interval_name |-> "kontrol trimester 3"]
    ELSE IF weeks_since_last >= 1
         THEN [target_weeks |-> current_pregnancy_weeks,
               interval_name |-> "kontrol menjelang persalinan (terlambat)"]
         ELSE [target_weeks |-> last_pregnancy_weeks + 1,
               interval_name |-> "kontrol menjelang persalinan"]

\* lines 414-451: the target week and the interval label
visit_interval(current_pregnancy_weeks, last_pregnancy_weeks) ==
    LET weeks_since_last == current_pregnancy_weeks - last_pregnancy_weeks IN
    IF current_pregnancy_weeks <= 12
    THEN [target_weeks |-> 13, interval_name |-> "memasuki trimester 2"]
    ELSE IF current_pregnancy_weeks <= 28
    THEN IF weeks_since_last >= 4
         THEN [target_weeks |-> current_pregnancy_weeks,
               interval_name |-> "kontrol trimester 2 (terlambat)"]
         ELSE [target_weeks |-> last_pregnancy_weeks + 4,
               interval_name |-> "kontrol trimester 2"]
    ELSE IF current_pregnancy_weeks <= 36
    THEN IF weeks_since_last >= 2
         THEN [target_weeks |-> current_pregnancy_weeks,
               interval_name |-> "kontrol trimester 3 (terlambat)"]
         ELSE [target_weeks |-> last_pregnancy_weeks + 2,
               interval_name |-> "kontrol trimester 3"]
    ELSE IF weeks_since_last >= 1
         THEN [target_weeks |-> current_pregnancy_weeks,
               interval_name |-> "kontrol menjelang persalinan (terlambat)"]
         ELSE [target_weeks |-> last_pregnancy_weeks + 1,
               interval_name |-> "kontrol menjelang persalinan"]

\* visit_date with the due test written `<`: a visit due this week is
\* scheduled zero weeks ahead, without the warning
visit_date_strict(target_weeks, current_pregnancy_weeks) ==
    IF target_weeks < current_pregnancy_weeks
    THEN [next_visit_date |-> 1, urgency_note |-> TRUE]
    ELSE [next_visit_date |-> (target_weeks - current_pregnancy_weeks) * 7,
          urgency_note |-> FALSE]

\* lines 453-466: the date, in days after today, and the overdue warning
visit_date(target_weeks, current_pregnancy_weeks) ==
    IF target_weeks <= current_pregnancy_weeks
    THEN [next_visit_date |-> 1, urgency_note |-> TRUE]
    ELSE [next_visit_date |-> (target_weeks - current_pregnancy_weeks) * 7,
          urgency_note |-> FALSE]

\* lines 394-494: at least one ANC visit
next_visit_reminder(anc_visits) ==
    LET latest_visit         == anc_visits[1]
        last_visit_date      == latest_visit.tanggal_kunjungan
        last_pregnancy_weeks == latest_visit.usia_kehamilan
    IN
    IF last_visit_date.kind = "empty" \/ last_pregnancy_weeks = 0
    THEN [message |-> "incomplete_visit"]                      \* line 400
    ELSE IF last_visit_date.kind = "malformed"
    THEN [message |-> "invalid_visit_date"]                    \* line 406
    ELSE IF last_visit_date.kind = "nan"
    THEN [message |-> "error"]                                 \* TypeError, line 496
    ELSE LET days_elapsed            == last_visit_date.days
             current_pregnancy_weeks == IntDiv7(7 * last_pregnancy_weeks + days_elapsed)
             interval == visit_interval(current_pregnancy_weeks, last_pregnancy_weeks)
             date     == visit_date(interval.target_weeks, current_pregnancy_weeks)
         IN  [message                 |-> "schedule",
              last_visit_date         |-> last_visit_date,
              last_pregnancy_weeks    |-> last_pregnancy_weeks,
              current_pregnancy_weeks |-> current_pregnancy_weeks,
              target_weeks            |-> interval.target_weeks,
              interval_name           |-> interval.interval_name,
              next_visit_date         |-> date.next_visit_date,
              urgency_note            |-> date.urgency_note]

\* _calculate_anc_reminder, lines 298-498
_calculate_anc_reminder(data) ==
    LET anc_visits     == data.anc_visits
        pregnancy_data == data.pregnancy_data
        deliveries     == data.deliveries
    IN
    IF pregnancy_data = <<>>
    THEN [message |-> "register"]                              \* line 316
    ELSE LET current_pregnancy == pregnancy_data[1]
             pregnancy_id      == current_pregnancy.id_kehamilan
         IN
         IF current_pregnancy.status_kehamilan = NaNStatus
         THEN [message |-> "error"]         \* nan.lower(): AttributeError, line 496
         ELSE LET pregnancy_status == Lower(current_pregnancy.status_kehamilan)
                  delivery         == find_delivery(deliveries, pregnancy_id)
              IN
              IF delivery # <<>>
              THEN [message |-> "completed", pregnancy_id |-> pregnancy_id,
                    delivery_date |-> delivery[1].tanggal_lahir]     \* line 337
              ELSE IF pregnancy_status \notin active_statuses
              THEN [message |-> "status", pregnancy_status |-> pregnancy_status]
              ELSE IF anc_visits = <<>>
              THEN first_visit_reminder(current_pregnancy)
              ELSE next_visit_reminder(anc_visits)

(***************************************************************************)
(* The scheduler as a state machine: one context bundle and the call.      *)
(***************************************************************************)
StatusValues == {"Berjalan", "aktif", "Selesai", "", NaNStatus}

VisitDates == { DateStr(d) : d \in (0 - MaxFutureDays)..MaxDays }
                 \cup {EmptyStr, NaNCell, Malformed}

AncVisits == { [id_kehamilan |-> 1, tanggal_kunjungan |-> t, usia_kehamilan |-> w] :
                 t \in VisitDates, w \in 0..MaxWeek }

LmpDates == { DateStr(d) : d \in 0..MaxLmpDays } \cup {EmptyStr, NaNCell, Malformed}

\* tanggal_hpht is read only when there is no visit: with a visit, a few
\* values stand for all.
LmpSamples == {DateStr(70), EmptyStr}

Pregnancies(lmp) == { [id_kehamilan |-> 1, status_kehamilan |-> s, tanggal_hpht |-> h] :
                        s \in StatusValues, h \in lmp }

DeliveryLists == { <<>>,
                   << [id_kehamilan |-> 1, tanggal_lahir |-> DateStr(3)] >>,
                   << [id_kehamilan |-> 2, tanggal_lahir |-> DateStr(400)] >>,
                   << [id_kehamilan |-> 2, tanggal_lahir |-> DateStr(400)],
                      [id_kehamilan |-> 1, tanggal_lahir |-> DateStr(3)] >> }

AncContexts ==
    { [pregnancy_data |-> <<>>, anc_visits |-> <<>>, deliveries |-> <<>>] }
    \cup { [pregnancy_data |-> <<p>>, anc_visits |-> <<>>, deliveries |-> d] :
             p \in Pregnancies(LmpDates), d \in DeliveryLists }
    \cup { [pregnancy_data |-> <<p>>, anc_visits |-> <<v>>, deliveries |-> d] :
             p \in Pregnancies(LmpSamples), v \in AncVisits, d \in DeliveryLists }

CalculateAncReminder ==
    /\ anc_reminder' = _calculate_anc_reminder(db_context)
    /\ UNCHANGED <<llm_model, db_context, llm_response>>
    /\ UNCHANGED simVars
    /\ UNCHANGED appVars
    /\ UNCHANGED dataVars

IdleSim ==
    /\ similarities = <<>>
    /\ encoder_fails = FALSE
    /\ domain_model = "none"
    /\ pregnancy_model = "none"
    /\ general_model = "none"
    /\ similarity_result = NoResult
    /\ intent_result = NoResult
    /\ domain_result = NoResult

InitAnc ==
    /\ llm_model = "ok"
    /\ db_context \in AncContexts
    /\ anc_reminder = NoResult
    /\ llm_response = NoResult
    /\ IdleSim
    /\ IdleApp
    /\ IdleData

NextAnc == CalculateAncReminder

SpecAnc == InitAnc /\ [][NextAnc]_vars

(***************************************************************************)
(* Properties of the ANC reminder.                                         *)
(***************************************************************************)
Scheduled == anc_reminder # NoResult /\ anc_reminder.message = "schedule"

\* the latest visit's week, and the week the pregnancy is in today:
\* last_week + floor(days since the latest visit / 7)
LastWeek    == db_context.anc_visits[1].usia_kehamilan
CurrentWeek == LastWeek + (db_context.anc_visits[1].tanggal_kunjungan.days \div 7)

\* the cadence of the band the current week lies in
Cadence == IF CurrentWeek <= 28 THEN 4 ELSE IF CurrentWeek <= 36 THEN 2 ELSE 1

Overdue == CurrentWeek > 12 /\ CurrentWeek - LastWeek >= Cadence

OverdueLabels == { "kontrol trimester 2 (terlambat)",
                   "kontrol trimester 3 (terlambat)",
                   "kontrol menjelang persalinan (terlambat)" }

\* C3: with a latest visit at an integer week, the week of today is
\* last_week + floor(days / 7); up to week 12 the target is week 13; in
\* weeks 13..28, 29..36 and above 36 the visit is overdue with target =
\* current week when current - last reaches 4, 2 and 1, else the target is
\* last + 4, last + 2 and last + 1.
C3_TargetWeek ==
    Scheduled =>
        /\ anc_reminder.current_pregnancy_weeks = CurrentWeek
        /\ anc_reminder.target_weeks =
              IF CurrentWeek <= 12 THEN 13
              ELSE IF Overdue THEN CurrentWeek
              ELSE LastWeek + Cadence
        /\ (anc_reminder.interval_name \in OverdueLabels) <=> Overdue

\* latest visit at week 9, four weeks ago: week 13 today, overdue, target 13
C3_Witness ==
    /\ Scheduled
    /\ LastWeek = 9
    /\ anc_reminder.current_pregnancy_weeks = 13
    /\ anc_reminder.target_weeks = 13
    /\ anc_reminder.interval_name = "kontrol trimester 2 (terlambat)"

\* C4: the next visit is tomorrow, with the overdue warning, when the
\* target week is not after the current week; otherwise it is
\* 7 * (target - current week) days after today, without the warning.
C4_NextVisitDate ==
    Scheduled =>
        IF anc_reminder.target_weeks <= CurrentWeek
        THEN anc_reminder.next_visit_date = 1 /\ anc_reminder.urgency_note
        ELSE /\ anc_reminder.next_visit_date = 7 * (anc_reminder.target_weeks - CurrentWeek)
             /\ ~anc_reminder.urgency_note

\* latest visit at week 20, three weeks ago: week 23 today, target 24,
\* next visit in 7 days, no warning
C4_Witness ==
    /\ Scheduled
    /\ LastWeek = 20
    /\ db_context.anc_visits[1].tanggal_kunjungan.days = 21
    /\ anc_reminder.current_pregnancy_weeks = 23
    /\ anc_reminder.target_weeks = 24
    /\ anc_reminder.next_visit_date = 7
    /\ ~anc_reminder.urgency_note

\* C5: the reminder decides in a fixed order: without a pregnancy record
\* the register message; else with a delivery of the selected pregnancy the
\* completion message, whatever the status and the visits; else with a
\* lower-cased status outside berjalan, aktif, ongoing the status message,
\* whatever the visits; only otherwise a schedule or first-visit advice.
C5_DecisionOrder ==
    anc_reminder # NoResult =>
        LET pregnancy_data == db_context.pregnancy_data
            deliveries     == db_context.deliveries
        IN
        IF pregnancy_data = <<>>
        THEN anc_reminder.message = "register"
        ELSE IF \E i \in 1..Len(deliveries) :
                    deliveries[i].id_kehamilan = pregnancy_data[1].id_kehamilan
        THEN anc_reminder.message = "completed"
        ELSE IF Lower(pregnancy_data[1].status_kehamilan) \notin {"berjalan", "aktif", "ongoing"}
        THEN anc_reminder.message = "status"
        ELSE anc_reminder.message \notin {"register", "completed", "status"}

\* an active pregnancy without delivery and without ANC visit
FirstVisitCase ==
    /\ anc_reminder # NoResult
    /\ db_context.pregnancy_data # <<>>
    /\ db_context.anc_visits = <<>>
    /\ find_delivery(db_context.deliveries, db_context.pregnancy_data[1].id_kehamilan) = <<>>
    /\ db_context.pregnancy_data[1].status_kehamilan \in {"Berjalan", "aktif"}

\* C6: for an active pregnancy without ANC visit and an LMP date d days
\* ago, the advised date is tomorrow when floor(d / 7) >= 8 and otherwise
\* the day week 8 is reached, 56 - d days from today; when the record has no
\* LMP date the answer is the general guideline, without a date.
C6_FirstVisit ==
    FirstVisitCase =>
        LET hpht == db_context.pregnancy_data[1].tanggal_hpht IN
        IF hpht.kind = "date"
        THEN IF hpht.days \div 7 >= 8
             THEN anc_reminder.next_visit_date = 1
             ELSE anc_reminder.next_visit_date = 56 - hpht.days
        ELSE (hpht.kind \in {"empty", "nan"}) =>
                 /\ anc_reminder.message = "first_visit_guideline"
                 /\ "next_visit_date" \notin DOMAIN anc_reminder

(***************************************************************************)
(* classify_domain.  A text is its sequence of characters, so that the     *)
(* keyword fallback's `keyword in user_lower` is a substring test.         *)
(***************************************************************************)
LowerChar(c) ==
    CASE c = "A" -> "a" [] c = "B" -> "b" [] c = "H" -> "h" [] c = "I" -> "i"
      [] c = "L" -> "l" [] c = "M" -> "m" [] c = "N" -> "n" [] c = "Y" -> "y"
      [] OTHER -> c

lower(text) == [i \in 1..Len(text) |-> LowerChar(text[i])]

\* `keyword in text`
Contains(text, keyword) ==
    \E i \in 1..(Len(text) - Len(keyword) + 1) :
        SubSeq(text, i, i + Len(keyword) - 1) = keyword

\* lines 220-221
pregnancy_keywords ==
    << <<"h","a","m","i","l">>,
       <<"k","e","h","a","m","i","l","a","n">>,
       <<"k","a","n","d","u","n","g","a","n">>,
       <<"a","n","c">>,
       <<"p","e","r","s","a","l","i","n","a","n">>,
       <<"m","e","l","a","h","i","r","k","a","n">>,
       <<"t","r","i","m","e","s","t","e","r">>,
       <<"k","o","n","t","r","a","k","s","i">>,
       <<"j","a","n","i","n">>,
       <<"b","a","y","i">> >>

\* classify_domain whose keyword fallback forgets to lower-case the input
classify_domain_case_sensitive(user_input, model, out) ==
    IF model = "none"
    THEN IF \E k \in 1..Len(pregnancy_keywords) :
                Contains(user_input, pregnancy_keywords[k])
         THEN "KEHAMILAN" ELSE "UMUM"
    ELSE IF model = "raises"
    THEN "UMUM"
    ELSE IF out = 1 THEN "UMUM" ELSE "KEHAMILAN"

\* classify_domain, lines 207-254; out is the model's argmax class
classify_domain(user_input, model, out) ==
    IF model = "none"
    THEN IF \E k \in 1..Len(pregnancy_keywords) :
                Contains(lower(user_input), pregnancy_keywords[k])
         THEN "KEHAMILAN" ELSE "UMUM"
    ELSE IF model = "raises"
    THEN "UMUM"                                             \* line 254
    ELSE IF out = 1 THEN "UMUM" ELSE "KEHAMILAN"            \* line 245

(***************************************************************************)
(* The classifiers with their models loaded: one input, and the calls of   *)
(* classify_domain and of the two intent classifiers on it.                *)
(***************************************************************************)
\* texts handed to classify_domain: "HAMIL", "lab", "rANCangan" (a keyword
\* inside a word), "ham il" (a keyword broken by a blank), "" and "Bayi?"
DomainInputs ==
    { <<"H","A","M","I","L">>,
      <<"l","a","b">>,
      <<"r","A","N","C","a","n","g","a","n">>,
      <<"h","a","m"," ","i","l">>,
      <<>>,
      <<"B","a","y","i","?">> }

\* torch.argmax over the two classes of the domain model
DomainClasses == 0..1

ClassifyDomain ==
    /\ \E text \in DomainInputs :
       \E out \in (IF domain_model = "ok" THEN DomainClasses ELSE {0}) :
          domain_result' = [user_input |-> text,
                            predicted_class |-> out,
                            result |-> classify_domain(text, domain_model, out)]
    /\ UNCHANGED <<similarities, encoder_fails, domain_model, pregnancy_model,
                   general_model, similarity_result, intent_result>>
    /\ UNCHANGED ancVars
    /\ UNCHANGED appVars
    /\ UNCHANGED dataVars

InitCls ==
    /\ similarities = << [intent |-> "anc_tracker", sims |-> <<60>>] >>
    /\ encoder_fails = FALSE
    /\ domain_model \in {"none", "ok", "raises"}
    /\ pregnancy_model \in {"ok", "none"}
    /\ general_model \in {"ok", "raises"}
    /\ similarity_result = NoResult
    /\ intent_result = NoResult
    /\ domain_result = NoResult
    /\ IdleAnc
    /\ IdleApp
    /\ IdleData

\* The calls are pure and independent of each other: each behaviour makes
\* one call on its input.
NextCls ==
    \/ domain_result = NoResult /\ intent_result = NoResult /\ ClassifyDomain
    \/ domain_result = NoResult /\ intent_result = NoResult /\ ClassifyPregnancyIntent
    \/ domain_result = NoResult /\ intent_result = NoResult /\ ClassifyGeneralIntent

SpecCls == InitCls /\ [][NextCls]_vars

(***************************************************************************)
(* Properties of the classifiers.                                          *)
(***************************************************************************)
\* the last intent classification ran the BERT model of its domain
ModelPath ==
    /\ intent_result # NoResult
    /\ IF intent_result.domain = "KEHAMILAN"
       THEN pregnancy_model = "ok" ELSE general_model = "ok"

\* C18: on the model path the result has exactly two predictions, ranked 1
\* and 2, the first at least as confident as the second, and the top-level
\* intent and confidence are those of the first prediction.
C18_TopTwo ==
    ModelPath =>
        LET r == intent_result.result IN
        /\ "predictions" \in DOMAIN r
        /\ Len(r.predictions) = 2
        /\ r.predictions[1].rank = 1
        /\ r.predictions[2].rank = 2
        /\ r.predictions[1].confidence >= r.predictions[2].confidence
        /\ r.intent = r.predictions[1].intent
        /\ r.confidence = r.predictions[1].confidence

\* the pregnancy model answered with two equally likely classes
C18_Witness ==
    /\ ModelPath
    /\ intent_result.domain = "KEHAMILAN"
    /\ intent_result.model_output.classes = <<3, 0>>
    /\ intent_result.result.predictions[1].confidence = 50
    /\ intent_result.result.predictions[2].confidence = 50
    /\ intent_result.result.intent = "reminder_kontrol_kehamilan"

\* the documented label order of the general model
GeneralVocabulary ==
    << "cek_data_customer", "cek_golongan_darah", "detail_dokter",
       "detail_preskripsi_obat", "hasil_lab_detail", "hasil_lab_ringkasan",
       "jadwal_dokter", "riwayat_berobat", "riwayat_diagnosis",
       "riwayat_kondisi_fisik", "riwayat_preskripsi_obat" >>

\* C19: the general classifier names class i in 0..10 by the i-th name of
\* the vocabulary and every class from 11 on cek_data_customer; the
\* pregnancy classifier names every class at or beyond its six labels
\* panduan_persiapan_persalinan.
C19_LabelLookup ==
    ModelPath =>
        LET r   == intent_result.result
            out == intent_result.model_output
        IN
        \A i \in 1..Len(r.predictions) :
            IF intent_result.domain = "UMUM"
            THEN r.predictions[i].intent =
                    IF out.classes[i] <= 10
                    THEN GeneralVocabulary[out.classes[i] + 1]
                    ELSE "cek_data_customer"
            ELSE out.classes[i] >= 6 =>
                    r.predictions[i].intent = "panduan_persiapan_persalinan"

\* the general model answered class 4, then a class beyond the vocabulary
C19_Witness ==
    /\ ModelPath
    /\ intent_result.domain = "UMUM"
    /\ intent_result.model_output.classes = <<4, 11>>
    /\ intent_result.result.predictions[1].intent = "hasil_lab_detail"
    /\ intent_result.result.predictions[2].intent = "cek_data_customer"

\* some keyword occurs in the lower-cased text, letter by letter
MentionsPregnancy(text) ==
    \E k \in 1..Len(pregnancy_keywords) :
        \E start \in 0..(Len(text) - Len(pregnancy_keywords[k])) :
            \A j \in 1..Len(pregnancy_keywords[k]) :
                LowerChar(text[start + j]) = pregnancy_keywords[k][j]

generate_response(model, intent, data, llm_out) ==
    IF model = "none"
    THEN [kind |-> "unavailable", detail |-> ""]                      \* line 65
    ELSE IF intent = "reminder_kontrol_kehamilan"
    THEN [kind |-> "anc_reminder",
          detail |-> _calculate_anc_reminder(data)]                   \* line 69
    ELSE IF llm_out = "text"
    THEN [kind |-> "generated", detail |-> ""]                        \* line 78
    ELSE IF llm_out = "empty"
    THEN [kind |-> "no_answer", detail |-> ""]                        \* line 80
    ELSE [kind |-> "generation_error", detail |-> ""]                 \* line 84

(***************************************************************************)
(* The session (st.session_state) and one turn, process_user_message.      *)
(***************************************************************************)
MaxTurns == 1      \* turns kept in chat_history before it must be cleared

OutOfScope == [kind |-> "out_of_scope", detail |-> ""]     \* line 561
Apology    == [kind |-> "apology", detail |-> ""]          \* line 636

Customers == {"C001", "C002"}

\* The ANC records of the session's customers: C001 has a running pregnancy
\* with one visit at week 20, three weeks ago; C002 has no pregnancy.
customer_anc_context(customer_id) ==
    IF customer_id = "C001"
    THEN [pregnancy_data |-> << [id_kehamilan |-> 1, status_kehamilan |-> "Berjalan",
                                 tanggal_hpht |-> DateStr(161)] >>,
          anc_visits     |-> << [id_kehamilan |-> 1, tanggal_kunjungan |-> DateStr(21),
                                 usia_kehamilan |-> 20] >>,
          deliveries     |-> <<>>]
    ELSE [pregnancy_data |-> <<>>, anc_visits |-> <<>>, deliveries |-> <<>>]

\* what the user can type: "HAMIL" (a pregnancy keyword, upper case), "lab"
UserInputs == { <<"H","A","M","I","L">>, <<"l","a","b">> }

\* the similarity matrix of a turn's input: an empty index, a best match
\* below the threshold and one at the threshold
TurnMatrices ==
    { <<>>,
      << [intent |-> "anc_tracker", sims |-> <<59>>] >>,
      << [intent |-> "cek_data_customer", sims |-> <<40>>],
         [intent |-> "anc_tracker", sims |-> <<60>>] >> }

\* the intent model's answer in a turn
TurnOutputs ==
    { [classes |-> <<3, 0>>, confidences |-> <<90, 5>>],
      [classes |-> <<11, 2>>, confidences |-> <<50, 50>>] }

TurnOutputsOf(model) == IF model = "ok" THEN TurnOutputs ELSE {NoOutput}

\* the similarity matrix of a turn's input and whether encoding it fails
GateInputs ==
    { [matrix |-> m, encode_fails |-> FALSE] : m \in TurnMatrices }
    \cup { [matrix |-> << [intent |-> "anc_tracker", sims |-> <<60>>] >>,
            encode_fails |-> TRUE] }

\* The calls of a turn, in order; an exception may escape from one of them
\* (RaiseAt = its number), or from none (NoRaise).
StepGate     == 1      \* check_similarity, line 558
StepDomain   == 2      \* classify_domain, line 564
StepIntent   == 3      \* classify_*_intent, lines 568-570
StepContext  == 4      \* get_context_for_intent, line 576
StepResponse == 5      \* generate_response, line 592
StepRecs     == 6      \* get_contextual_recommendations, line 614
NoRaise      == StepRecs + 1

Call(fn, arg) == [fn |-> fn, arg |-> arg]

\* lines 576-589: the intents whose context is fetched, in call order
context_intents(result) ==
    <<result.intent>> \o
    (IF "predictions" \in DOMAIN result /\ Len(result.predictions) > 1
     THEN [i \in 1..Min(2, Len(result.predictions)) |-> result.predictions[i].intent]
     ELSE <<>>)

\* gate_rejects that lets through every input with some best match
gate_rejects_unmatched(similarity_result_) ==
    similarity_result_.best_matches = <<>>

\* line 560: if not similarity_result["is_valid"]
gate_rejects(similarity_result_) == ~similarity_result_.is_valid

\* turn_failed whose handler logs the error and appends nothing
turn_failed_silent(session, history, gate, calls) ==
    [chat_history |-> history,
     contextual_recommendations |-> session.contextual_recommendations,
     last_intent |-> session.last_intent,
     log |-> [similarity_result |-> gate, calls |-> calls, raised |-> TRUE]]

\* except Exception, lines 634-638: the apology is appended, nothing else changes
turn_failed(session, history, gate, calls) ==
    [chat_history |-> Append(history, [role |-> "assistant", content |-> Apology]),
     contextual_recommendations |-> session.contextual_recommendations,
     last_intent |-> session.last_intent,
     log |-> [similarity_result |-> gate, calls |-> calls, raised |-> TRUE]]

\* process_user_message, lines 549-638.  `in` holds the turn's inputs:
\* matrix, encode_fails, domain_out, intent_out, llm_out, raise_at.
\* The result holds the new session fields and the log of the turn: what
\* the gate returned, the calls made, whether the boundary handler ran.
process_user_message(user_input, in, session) ==
    LET history1 == Append(session.chat_history,
                           [role |-> "user", content |-> user_input])   \* line 553
        gate     == check_similarity(in.matrix, in.encode_fails)
        domain   == classify_domain(user_input, session.domain_model, in.domain_out)
        result   == IF domain = "KEHAMILAN"
                    THEN classify_pregnancy_intent(session.pregnancy_model, in.intent_out,
                                                   in.matrix, in.encode_fails)
                    ELSE classify_general_intent(session.general_model, in.intent_out,
                                                 in.matrix, in.encode_fails)
        customer_id == session.user_data.customer_id
        fetched  == context_intents(result)
        response == generate_response(session.llm_model, result.intent,
                                      customer_anc_context(customer_id), in.llm_out)
        c_gate   == << Call("check_similarity", "") >>
        c_domain == Append(c_gate, Call("classify_domain", ""))
        c_intent == Append(c_domain,
                           Call(IF domain = "KEHAMILAN" THEN "classify_pregnancy_intent"
                                ELSE "classify_general_intent", ""))
        c_fetch  == c_intent \o [i \in 1..Len(fetched) |->
                                    Call("get_context_for_intent", fetched[i])]
        c_reply  == Append(c_fetch, Call("generate_response", result.intent))
        c_recs   == Append(c_reply, Call("get_contextual_recommendations", result.intent))
    IN
    IF in.raise_at = StepGate
    THEN turn_failed(session, history1, NoResult, c_gate)
    ELSE IF gate_rejects(gate)
    THEN [chat_history |-> Append(history1, [role |-> "assistant", content |-> OutOfScope]),
          contextual_recommendations |-> <<>>,                          \* line 629
          last_intent |-> session.last_intent,
          log |-> [similarity_result |-> gate, calls |-> c_gate, raised |-> FALSE]]
    ELSE IF in.raise_at = StepDomain
    THEN turn_failed(session, history1, gate, c_domain)
    ELSE IF in.raise_at = StepIntent
    THEN turn_failed(session, history1, gate, c_intent)
    ELSE IF in.raise_at = StepContext
    THEN turn_failed(session, history1, gate,
                     Append(c_intent, Call("get_context_for_intent", result.intent)))
    ELSE IF in.raise_at = StepResponse
    THEN turn_failed(session, history1, gate, c_reply)
    ELSE [chat_history |-> Append(history1, [role |-> "assistant", content |-> response]),
          contextual_recommendations |->
              IF in.raise_at = StepRecs
              THEN <<>>                                                 \* line 626
              ELSE << [intent |-> result.intent, customer_id |-> customer_id] >>,
          last_intent |-> result.intent,                                \* line 608
          log |-> [similarity_result |-> gate, calls |-> c_recs, raised |-> FALSE]]

Session ==
    [chat_history |-> chat_history,
     contextual_recommendations |-> contextual_recommendations,
     last_intent |-> last_intent,
     user_data |-> user_data,
     domain_model |-> domain_model,
     pregnancy_model |-> pregnancy_model,
     general_model |-> general_model,
     llm_model |-> llm_model]

\* login_page, lines 344-349
Login ==
    /\ ~authenticated
    /\ \E c \in Customers :
          /\ authenticated' = TRUE
          /\ user_data' = [customer_id |-> c]
    /\ UNCHANGED <<chat_history, contextual_recommendations, last_intent, last_turn>>
    /\ UNCHANGED simVars
    /\ UNCHANGED ancVars
    /\ UNCHANGED dataVars

\* the "Keluar" button, lines 384-389
Logout ==
    /\ authenticated
    /\ authenticated' = FALSE
    /\ user_data' = None
    /\ chat_history' = <<>>
    /\ UNCHANGED <<contextual_recommendations, last_intent, last_turn>>
    /\ UNCHANGED simVars
    /\ UNCHANGED ancVars
    /\ UNCHANGED dataVars

\* the "Bersihkan Riwayat" button, lines 398-400
ClearHistory ==
    /\ authenticated
    /\ chat_history' = <<>>
    /\ UNCHANGED <<authenticated, user_data, contextual_recommendations,
                   last_intent, last_turn>>
    /\ UNCHANGED simVars
    /\ UNCHANGED ancVars
    /\ UNCHANGED dataVars

\* The inputs a turn consumes: a call that is not reached, or whose model is
\* not loaded, yields nothing.
DomainOutputs(reached) ==
    IF reached /\ domain_model = "ok" THEN 0..1 ELSE {0}

IntentOutputs(reached, domain) ==
    IF reached
    THEN TurnOutputsOf(IF domain = "KEHAMILAN" THEN pregnancy_model ELSE general_model)
    ELSE {NoOutput}

LlmOutputs(reached) ==
    IF reached /\ llm_model = "ok" THEN {"text", "empty", "raises"} ELSE {"text"}

\* a submitted message, lines 544-547
ProcessUserMessage ==
    /\ authenticated
    /\ Len(chat_history) + 2 <= 2 * MaxTurns
    /\ \E user_input \in UserInputs, g \in GateInputs, raise_at \in StepGate..NoRaise :
        LET valid == ~gate_rejects(check_similarity(g.matrix, g.encode_fails)) IN
        \E domain_out \in DomainOutputs(valid /\ raise_at > StepDomain) :
        \E intent_out \in IntentOutputs(valid /\ raise_at > StepIntent,
                              classify_domain(user_input, domain_model, domain_out)),
           llm_out \in LlmOutputs(valid /\ raise_at > StepResponse) :
          LET turn == process_user_message(user_input,
                          [matrix |-> g.matrix, encode_fails |-> g.encode_fails,
                           domain_out |-> domain_out, intent_out |-> intent_out,
                           llm_out |-> llm_out, raise_at |-> raise_at],
                          Session)
          IN  /\ chat_history' = turn.chat_history
              /\ contextual_recommendations' = turn.contextual_recommendations
              /\ last_intent' = turn.last_intent
              /\ last_turn' = turn.log
    /\ UNCHANGED <<authenticated, user_data>>
    /\ UNCHANGED simVars
    /\ UNCHANGED ancVars
    /\ UNCHANGED dataVars

\* What initialize_components can have loaded: everything; everything but
\* the Gemini key; no BERT model at all; all but the pregnancy model.
Deployments ==
    { [domain |-> "ok",   pregnancy |-> "ok",   general |-> "ok",   llm |-> "ok"],
      [domain |-> "ok",   pregnancy |-> "ok",   general |-> "ok",   llm |-> "none"],
      [domain |-> "none", pregnancy |-> "none", general |-> "none", llm |-> "ok"],
      [domain |-> "ok",   pregnancy |-> "none", general |-> "ok",   llm |-> "ok"] }

Init ==
    /\ similarities = <<>>
    /\ encoder_fails = FALSE
    /\ \E d \in Deployments :
          /\ domain_model = d.domain
          /\ pregnancy_model = d.pregnancy
          /\ general_model = d.general
          /\ llm_model = d.llm
    /\ similarity_result = NoResult
    /\ intent_result = NoResult
    /\ domain_result = NoResult
    /\ db_context = NoResult
    /\ anc_reminder = NoResult
    /\ llm_response = NoResult
    /\ IdleApp
    /\ IdleData

Next == Login \/ Logout \/ ClearHistory \/ ProcessUserMessage

Spec == Init /\ [][Next]_vars

(***************************************************************************)
(* Properties of a turn.                                                   *)
(***************************************************************************)
\* the recorded turn's gate verdict was is_valid = false
GateSaidInvalid ==
    /\ last_turn # NoResult
    /\ last_turn.similarity_result # NoResult
    /\ ~last_turn.similarity_result.is_valid

\* the turn recorded in last_turn is the last one of chat_history
TurnInHistory == last_turn # NoResult /\ Len(chat_history) >= 2

\* C1: when check_similarity returns is_valid = false, the turn's reply is
\* the fixed out-of-scope message and the turn calls neither
\* classify_domain, nor an intent classifier, nor get_context_for_intent,
\* nor generate_response.
C1_OutOfScopeShortCircuit ==
    GateSaidInvalid =>
        /\ \A i \in 1..Len(last_turn.calls) :
              last_turn.calls[i].fn \notin
                  { "classify_domain", "classify_pregnancy_intent",
                    "classify_general_intent", "get_context_for_intent",
                    "generate_response" }
        /\ TurnInHistory =>
              /\ chat_history[Len(chat_history)].role = "assistant"
              /\ chat_history[Len(chat_history)].content = OutOfScope

\* a best match just below the threshold was answered out of scope
C1_Witness ==
    /\ GateSaidInvalid
    /\ last_turn.similarity_result.max_similarity = 59
    /\ TurnInHistory
    /\ chat_history[Len(chat_history)].content = OutOfScope
    /\ last_turn.calls = << Call("check_similarity", "") >>

\* C2: every turn appends to the history exactly one user entry and then
\* exactly one assistant entry, whichever step fails; when the boundary
\* handler ran, the assistant entry is the fixed apology.
C2_TurnAppendsPair ==
    [][ (last_turn' # last_turn \/ Len(chat_history') > Len(chat_history)) =>
            LET n == Len(chat_history) IN
            /\ Len(chat_history') = n + 2
            /\ SubSeq(chat_history', 1, n) = chat_history
            /\ chat_history'[n + 1].role = "user"
            /\ chat_history'[n + 2].role = "assistant"
            /\ last_turn'.raised => chat_history'[n + 2].content = Apology
      ]_vars

\* a turn whose response generation raised ended with the apology
C2_Witness ==
    /\ TurnInHistory
    /\ last_turn.raised
    /\ last_turn.calls[Len(last_turn.calls)].fn = "generate_response"
    /\ chat_history[Len(chat_history) - 1].role = "user"
    /\ chat_history[Len(chat_history)].content = Apology

(***************************************************************************)
(* src/database_handler.py: DatabaseHandler.  A data frame is the sequence *)
(* of its rows, a row a record of its columns, a Python dict a function on *)
(* its keys.  Dates are numbered days: the ISO date strings of the CSV     *)
(* files compare as their dates do.                                        *)
(***************************************************************************)
MaxRows == 2    \* rows of a CSV file
HeadRows == 3   \* .head(3) of get_user_history_summary

EmptyDict == [k \in {} |-> k]

\* one key of a dict, set only when the code reaches the assignment
Entry(cond, key, value) == IF cond THEN key :> value ELSE EmptyDict

\* csv_files, lines 28-42
csv_files == { "customer", "anc_kunjungan", "diagnosis", "dokter", "hasil_lab",
               "historikal_kondisi_fisik", "imunisasi_ibu_hamil", "jadwal_dokter",
               "kehamilan", "persalinan", "preskripsi", "riwayat_berobat",
               "suplemen_ibu_hamil" }

\* the other end of a file: row i of a child file refers to row Mirror(i)
\* of its parent file, so that the two files are not in the same order
Mirror(i) == MaxRows + 1 - i

customer_names == [c \in Customers |-> IF c = "C001" THEN "Ani" ELSE "Budi"]

\* pd.read_csv(file_path), line 49: the rows of one file.  owner gives the
\* customer of row i, date the date of row i.
read_csv(table_name, owner, date) ==
    CASE table_name = "customer" ->
           << [customer_id |-> "C001", name |-> customer_names["C001"]],
              [customer_id |-> "C002", name |-> customer_names["C002"]] >>
      [] table_name = "kehamilan" ->
           [i \in 1..MaxRows |-> [id_kehamilan |-> i, customer_id |-> owner[i],
                                  tanggal_hpht |-> date[i]]]
      [] table_name = "anc_kunjungan" ->
           [i \in 1..MaxRows |-> [id_kunjungan |-> i, id_kehamilan |-> Mirror(i),
                                  tanggal_kunjungan |-> date[i]]]
      [] table_name = "persalinan" ->
           [i \in 1..MaxRows |-> [id_persalinan |-> i, id_kehamilan |-> i,
                                  tanggal_lahir |-> date[Mirror(i)]]]
      [] table_name = "imunisasi_ibu_hamil" ->
           [i \in 1..MaxRows |-> [id_imunisasi |-> i, id_kehamilan |-> Mirror(i),
                                  tanggal_pemberian |-> date[i]]]
      [] table_name = "suplemen_ibu_hamil" ->
           [i \in 1..MaxRows |-> [id_suplemen |-> i, id_kunjungan |-> i]]
      [] table_name = "historikal_kondisi_fisik" ->
           [i \in 1..MaxRows |-> [id_kondisi |-> i, customer_id |-> owner[i],
                                  tanggal_pemeriksaan |-> date[i]]]
      [] table_name = "riwayat_berobat" ->
           [i \in 1..MaxRows |-> [visit_id |-> i, customer_id |-> owner[Mirror(i)],
                                  visit_date |-> date[i]]]
      [] table_name = "diagnosis" ->
           [i \in 1..MaxRows |-> [diagnosis_id |-> i, visit_id |-> Mirror(i),
                                  created_at |-> date[i]]]
      [] table_name = "preskripsi" ->
           [i \in 1..MaxRows |-> [prescription_id |-> i, visit_id |-> i,
                                  start_date |-> date[Mirror(i)]]]
      [] table_name = "hasil_lab" ->
           [i \in 1..MaxRows |-> [lab_id |-> i, customer_id |-> owner[i],
                                  test_date |-> date[i], test_type |-> "Hemoglobin"]]
      [] table_name = "jadwal_dokter" ->
           [i \in 1..MaxRows |-> [id_dokter |-> i, practice_date |-> date[i]]]
      [] table_name = "dokter" ->
           [i \in 1..MaxRows |-> [id_dokter |-> i]]

\* files of the Database directory that may be absent (line 46)
MissingFiles ==
    { {}, {"kehamilan"}, {"anc_kunjungan"}, {"riwayat_berobat"},
      {"customer", "diagnosis", "dokter", "hasil_lab", "historikal_kondisi_fisik",
       "imunisasi_ibu_hamil", "jadwal_dokter", "persalinan", "preskripsi",
       "suplemen_ibu_hamil"} }

\* the dates of the rows of a file, in row order: oldest first, latest
\* first, all on one day, and the latest row in the middle or last
DateOrders ==
    { [i \in 1..MaxRows |-> i], [i \in 1..MaxRows |-> Mirror(i)],
      [i \in 1..MaxRows |-> 1], [i \in 1..MaxRows |-> (i % MaxRows) + 1] }

\* the Database directory: every file that exists, with its rows
Databases ==
    { [t \in csv_files \ missing |-> read_csv(t, owner, date)] :
        missing \in MissingFiles,
        owner \in [1..MaxRows -> Customers],
        date \in DateOrders }

\* the text of panduan_persiapan_persalinan.txt; "" when the file is absent
\* (lines 69-76)
KnowledgeTexts == { "", "Panduan persiapan persalinan" }

\* frame[frame[column].isin(values)] and frame[frame[column] == value]:
\* the matching rows, as a new frame in the order of the table
RECURSIVE mask(_, _, _)
mask(frame, column, values) ==
    IF frame = <<>> THEN <<>>
    ELSE (IF frame[1][column] \in values THEN <<frame[1]>> ELSE <<>>)
         \o mask(Tail(frame), column, values)

\* frame[column].tolist()
tolist(frame, column) == [i \in 1..Len(frame) |-> frame[i][column]]

Values(list) == { list[i] : i \in 1..Len(list) }

\* sort_values(by, ascending=False): a new frame, highest first.  Rows
\* with equal keys are kept in the order they had; no property below
\* depends on the order of such rows.
RECURSIVE insert_row(_, _, _)
insert_row(sorted, row, by) ==
    IF sorted = <<>> THEN <<row>>
    ELSE IF sorted[1][by] >= row[by]
         THEN <<sorted[1]>> \o insert_row(Tail(sorted), row, by)
         ELSE <<row>> \o sorted

RECURSIVE sort_values(_, _)
sort_values(frame, by) ==
    IF frame = <<>> THEN <<>>
    ELSE insert_row(sort_values(SubSeq(frame, 1, Len(frame) - 1), by),
                    frame[Len(frame)], by)

\* frame.head(n)
head(frame, n) == SubSeq(frame, 1, Min(n, Len(frame)))

\* sort_values that sorts the frame it is called on (inplace=True)
frame_after_sort_inplace(frame, by) == sort_values(frame, by)

\* the frame sort_values was called on, after the call: sort_values
\* returns a copy and leaves the frame in the order it had
frame_after_sort(frame, by) == frame

\* supplements.merge(anc_kunjungan[['id_kunjungan', 'tanggal_kunjungan']],
\* on='id_kunjungan', how='left'), lines 318-322: every supplement row once
\* per visit row of its id_kunjungan, in the order of the supplements
RECURSIVE merge_visit_dates(_, _)
merge_visit_dates(supplements, visits) ==
    IF supplements = <<>> THEN <<>>
    ELSE LET s       == supplements[1]
             matches == mask(visits, "id_kunjungan", {s.id_kunjungan})
         IN  [i \in 1..Len(matches) |->
                 [id_suplemen |-> s.id_suplemen, id_kunjungan |-> s.id_kunjungan,
                  tanggal_kunjungan |-> matches[i].tanggal_kunjungan]]
             \o merge_visit_dates(Tail(supplements), visits)

\* lines 185-192 and their copies: the customer's pregnancy rows
customer_pregnancies(tbls, customer_id) ==
    IF "kehamilan" \in DOMAIN tbls
    THEN mask(tbls["kehamilan"], "customer_id", {customer_id})
    ELSE <<>>

\* rows of a table of pregnancy records, for the customer's pregnancies,
\* latest first (lines 195-201, 204-210, 253-259, 278-284)
pregnancy_rows(tbls, table_name, pregnancy_ids, by) ==
    IF table_name \in DOMAIN tbls /\ pregnancy_ids # <<>>
    THEN sort_values(mask(tbls[table_name], "id_kehamilan", Values(pregnancy_ids)), by)
    ELSE <<>>

\* lines 180-212
_get_anc_schedule_context(tbls, customer_id) ==
    LET pregnancy_data == customer_pregnancies(tbls, customer_id)
        pregnancy_ids  == tolist(pregnancy_data, "id_kehamilan")
    IN  Entry(pregnancy_data # <<>>, "pregnancy_data", pregnancy_data)
        @@ ("anc_visits" :> pregnancy_rows(tbls, "anc_kunjungan", pregnancy_ids,
                                           "tanggal_kunjungan"))
        @@ ("deliveries" :> pregnancy_rows(tbls, "persalinan", pregnancy_ids,
                                           "tanggal_lahir"))

\* lines 214-237
_get_anc_tracking_context(tbls, customer_id) ==
    LET pregnancy_data == customer_pregnancies(tbls, customer_id)
        pregnancy_ids  == tolist(pregnancy_data, "id_kehamilan")
    IN  Entry(pregnancy_data # <<>>, "pregnancy_data", pregnancy_data)
        @@ ("anc_visits" :> pregnancy_rows(tbls, "anc_kunjungan", pregnancy_ids,
                                           "tanggal_kunjungan"))

\* lines 239-261
_get_immunization_context(tbls, customer_id) ==
    LET pregnancy_ids == tolist(customer_pregnancies(tbls, customer_id), "id_kehamilan")
    IN  "immunizations" :> pregnancy_rows(tbls, "imunisasi_ibu_hamil", pregnancy_ids,
                                          "tanggal_pemberian")

\* lines 263-286
_get_delivery_history_context(tbls, customer_id) ==
    LET pregnancy_data == customer_pregnancies(tbls, customer_id)
        pregnancy_ids  == tolist(pregnancy_data, "id_kehamilan")
    IN  Entry(pregnancy_data # <<>>, "pregnancies", pregnancy_data)
        @@ ("deliveries" :> pregnancy_rows(tbls, "persalinan", pregnancy_ids,
                                           "tanggal_lahir"))

\* lines 288-329.  The branch of line 325 needs visit ids without a visit
\* table and is never taken.
_get_supplement_context(tbls, customer_id) ==
    LET pregnancy_ids == tolist(customer_pregnancies(tbls, customer_id), "id_kehamilan")
        anc_visits    == IF "anc_kunjungan" \in DOMAIN tbls /\ pregnancy_ids # <<>>
                         THEN mask(tbls["anc_kunjungan"], "id_kehamilan",
                                   Values(pregnancy_ids))
                         ELSE <<>>
        anc_visit_ids == tolist(anc_visits, "id_kunjungan")
    IN  IF "suplemen_ibu_hamil" \in DOMAIN tbls /\ anc_visit_ids # <<>>
        THEN LET supplements == mask(tbls["suplemen_ibu_hamil"], "id_kunjungan",
                                     Values(anc_visit_ids))
             IN  "supplements" :>
                     sort_values(merge_visit_dates(supplements, tbls["anc_kunjungan"]),
                                 "tanggal_kunjungan")
        ELSE "supplements" :> <<>>

\* rows of a table that carries customer_id, latest first
customer_rows(tbls, table_name, customer_id, by) ==
    sort_values(mask(tbls[table_name], "customer_id", {customer_id}), by)

\* lines 331-341
_get_physical_condition_context(tbls, customer_id) ==
    Entry("historikal_kondisi_fisik" \in DOMAIN tbls, "physical_conditions",
          customer_rows(tbls, "historikal_kondisi_fisik", customer_id,
                        "tanggal_pemeriksaan"))

\* customer.iloc[0].to_dict() of the customer's rows, lines 347-352
customer_row(tbls, customer_id) ==
    IF "customer" \in DOMAIN tbls
    THEN mask(tbls["customer"], "customer_id", {customer_id})
    ELSE <<>>

\* lines 343-354
_get_blood_type_context(tbls, customer_id) ==
    LET customer == customer_row(tbls, customer_id)
    IN  Entry(customer # <<>>, "customer_info", customer[1])

\* lines 356-377; of the fields copied for easy access the name is kept
_get_customer_data_context(tbls, customer_id) ==
    LET customer == customer_row(tbls, customer_id)
    IN  Entry(customer # <<>>, "customer_info", customer[1])
        @@ Entry(customer # <<>>, "name", customer[1].name)

\* rows of a table of visit records, for the customer's treatment visits,
\* latest first (lines 385-396, 406-417)
visit_rows(tbls, table_name, customer_id, by) ==
    LET visits    == mask(tbls["riwayat_berobat"], "customer_id", {customer_id})
        visit_ids == tolist(visits, "visit_id")
    IN  sort_values(mask(tbls[table_name], "visit_id", Values(visit_ids)), by)

\* lines 379-398
_get_diagnosis_context(tbls, customer_id) ==
    Entry("diagnosis" \in DOMAIN tbls /\ "riwayat_berobat" \in DOMAIN tbls, "diagnoses",
          visit_rows(tbls, "diagnosis", customer_id, "created_at"))

\* lines 400-419
_get_prescription_context(tbls, customer_id) ==
    Entry("preskripsi" \in DOMAIN tbls /\ "riwayat_berobat" \in DOMAIN tbls,
          "prescriptions",
          visit_rows(tbls, "preskripsi", customer_id, "start_date"))

\* lines 421-431
_get_treatment_history_context(tbls, customer_id) ==
    Entry("riwayat_berobat" \in DOMAIN tbls, "treatments",
          customer_rows(tbls, "riwayat_berobat", customer_id, "visit_date"))

\* lines 433-446: every schedule and every doctor, whoever asks
_get_doctor_schedule_context(tbls, customer_id) ==
    Entry("jadwal_dokter" \in DOMAIN tbls, "doctor_schedules",
          sort_values(tbls["jadwal_dokter"], "practice_date"))
    @@ Entry("dokter" \in DOMAIN tbls, "doctors", tbls["dokter"])

\* lines 448-456
_get_doctor_details_context(tbls, customer_id) ==
    Entry("dokter" \in DOMAIN tbls, "doctors", tbls["dokter"])

\* _get_lab_results_context without the customer filter
_get_lab_results_context_unfiltered(tbls, customer_id) ==
    Entry("hasil_lab" \in DOMAIN tbls, "lab_results",
          sort_values(tbls["hasil_lab"], "test_date"))

\* lines 458-468
_get_lab_results_context(tbls, customer_id) ==
    Entry("hasil_lab" \in DOMAIN tbls, "lab_results",
          customer_rows(tbls, "hasil_lab", customer_id, "test_date"))

\* the intents whose branch of lines 114-154 reads tables
table_intents ==
    { "reminder_kontrol_kehamilan", "anc_tracker", "imunisasi_tracker",
      "riwayat_persalinan", "riwayat_suplemen_kehamilan", "riwayat_kondisi_fisik",
      "cek_golongan_darah", "cek_data_customer", "riwayat_diagnosis",
      "detail_diagnosis", "riwayat_preskripsi_obat", "detail_preskripsi_obat",
      "riwayat_berobat", "jadwal_dokter", "detail_dokter", "hasil_lab_ringkasan",
      "hasil_lab_detail" }

\* lines 114-154: the retrieval procedure of a table intent
route(tbls, intent, customer_id) ==
    CASE intent = "reminder_kontrol_kehamilan" -> _get_anc_schedule_context(tbls, customer_id)
      [] intent = "anc_tracker"                -> _get_anc_tracking_context(tbls, customer_id)
      [] intent = "imunisasi_tracker"          -> _get_immunization_context(tbls, customer_id)
      [] intent = "riwayat_persalinan"         -> _get_delivery_history_context(tbls, customer_id)
      [] intent = "riwayat_suplemen_kehamilan" -> _get_supplement_context(tbls, customer_id)
      [] intent = "riwayat_kondisi_fisik"      -> _get_physical_condition_context(tbls, customer_id)
      [] intent = "cek_golongan_darah"         -> _get_blood_type_context(tbls, customer_id)
      [] intent = "cek_data_customer"          -> _get_customer_data_context(tbls, customer_id)
      [] intent \in {"riwayat_diagnosis", "detail_diagnosis"} ->
             _get_diagnosis_context(tbls, customer_id)
      [] intent \in {"riwayat_preskripsi_obat", "detail_preskripsi_obat"} ->
             _get_prescription_context(tbls, customer_id)
      [] intent = "riwayat_berobat"            -> _get_treatment_history_context(tbls, customer_id)
      [] intent = "jadwal_dokter"              -> _get_doctor_schedule_context(tbls, customer_id)
      [] intent = "detail_dokter"              -> _get_doctor_details_context(tbls, customer_id)
      [] intent \in {"hasil_lab_ringkasan", "hasil_lab_detail"} ->
             _get_lab_results_context(tbls, customer_id)

\* retrieve with a final else branch that looks the customer up
retrieve_else_customer(tbls, intent, customer_id) ==
    IF intent \in table_intents
    THEN route(tbls, intent, customer_id)
    ELSE _get_customer_data_context(tbls, customer_id)

\* context['data'] after the if/elif chain of lines 114-158, which has no
\* else branch
retrieve(tbls, intent, customer_id) ==
    IF intent \in table_intents
    THEN route(tbls, intent, customer_id)
    ELSE EmptyDict

\* attach_knowledge that also serves the ANC tracker from the guidance text
attach_knowledge_anc(intent, knowledge) ==
    Entry(intent \in {"panduan_persiapan_persalinan", "anc_tracker"},
          "pregnancy_info", knowledge)

\* context['knowledge_base'] after the chain, lines 156-158
attach_knowledge(intent, knowledge) ==
    Entry(intent = "panduan_persiapan_persalinan", "pregnancy_info", knowledge)

\* intents with a line in the table of deskripsi_inten.md
described_intents == table_intents \cup {"panduan_persiapan_persalinan"}

\* lines 166-178: the description cell of the first line of the table that
\* contains the intent, "" without such a line.  The description is written
\* as the intent it describes.
_get_intent_description(intent) ==
    IF intent \in described_intents THEN intent ELSE ""

\* lines 93-164.  The tables modelled here have every column a retrieval
\* reads, so the handler of line 162 is not entered.
get_context_for_intent(tbls, knowledge, intent, customer_id) ==
    [intent             |-> intent,
     customer_id        |-> customer_id,
     data               |-> retrieve(tbls, intent, customer_id),
     knowledge_base     |-> attach_knowledge(intent, knowledge),
     intent_description |-> _get_intent_description(intent)]

\* self.tables after get_context_for_intent.  Filtering builds a new frame;
\* line 439 calls sort_values on the table itself.
tables_after_retrieval(tbls, intent) ==
    IF intent = "jadwal_dokter" /\ "jadwal_dokter" \in DOMAIN tbls
    THEN [tbls EXCEPT !["jadwal_dokter"] = frame_after_sort(@, "practice_date")]
    ELSE tbls

\* lines 470-533
get_user_history_summary(tbls, customer_id) ==
    LET visits == "riwayat_berobat" \in DOMAIN tbls IN
    [customer_id            |-> customer_id,
     recent_visits          |->
         IF visits
         THEN head(customer_rows(tbls, "riwayat_berobat", customer_id, "visit_date"),
                   HeadRows)
         ELSE <<>>,
     recent_diagnoses       |->
         IF "diagnosis" \in DOMAIN tbls /\ visits
         THEN head(visit_rows(tbls, "diagnosis", customer_id, "created_at"), HeadRows)
         ELSE <<>>,
     recent_prescriptions   |->
         IF "preskripsi" \in DOMAIN tbls /\ visits
         THEN head(visit_rows(tbls, "preskripsi", customer_id, "start_date"), HeadRows)
         ELSE <<>>,
     recent_lab_results     |->
         IF "hasil_lab" \in DOMAIN tbls
         THEN head(customer_rows(tbls, "hasil_lab", customer_id, "test_date"), HeadRows)
         ELSE <<>>,
     upcoming_appointments  |-> <<>>]

\* intent strings the classifiers and callers can pass: the handled ones
\* and strings the chain of lines 114-156 does not know
UnknownIntents == { "", "unknown", "Jadwal_Dokter", "panduan_kehamilan" }

Intents == table_intents \cup {"panduan_persiapan_persalinan"} \cup UnknownIntents

NoDataResult == context = NoResult /\ recommendations = NoResult

NoClassifierResult ==
    similarity_result = NoResult /\ intent_result = NoResult /\ domain_result = NoResult

\* database_handler.get_context_for_intent(intent, customer_id)
GetContextForIntent ==
    \E intent \in Intents, customer_id \in Customers :
        /\ context' = get_context_for_intent(tables, pregnancy_knowledge, intent, customer_id)
        /\ tables' = tables_after_retrieval(tables, intent)
        /\ UNCHANGED <<files, pregnancy_knowledge, recommendations>>
        /\ UNCHANGED <<simVars, ancVars, appVars>>

\* database_handler.get_user_history_summary(customer_id)
GetUserHistorySummary ==
    \E customer_id \in Customers :
        /\ context' = get_user_history_summary(tables, customer_id)
        /\ UNCHANGED <<files, tables, pregnancy_knowledge, recommendations>>
        /\ UNCHANGED <<simVars, ancVars, appVars>>

(***************************************************************************)
(* src/llm_handler.py, generate_recommendations, and                       *)
(* src/recommendation_engine.py.  Questions are the strings of the source. *)
(***************************************************************************)
MaxLines == 5              \* lines of a generated answer
QuestionCount == 4         \* the number of questions shown
MinQuestionLength == 10    \* a line must be longer than this to be a question

\* llm_handler.py lines 515-520 (and 566-571, 575-580, 585-590);
\* recommendation_engine.py lines 176-181
_get_default_recommendations ==
    << "Tampilkan ringkasan data kesehatan saya",
       "Apakah ada catatan kunjungan terakhir?",
       "Siapa dokter yang biasa menangani saya?",
       "Golongan darah saya apa?" >>

\* stripped lines of a generated answer: one of 10 characters, one longer
ShortLine == "Obat saya?"
LongLine  == "Tampilkan hasil lab terakhir saya"

\* what the call of the generator gives: the handler cannot be called, the
\* API raises, or an answer of some lines (none: an empty text)
LlmOutcomes ==
    { [kind |-> "handler_raises", lines |-> <<>>], [kind |-> "raises", lines |-> <<>>] }
    \cup { [kind |-> "text",
            lines |-> [i \in 1..n |-> IF i <= long THEN LongLine ELSE ShortLine]] :
             n \in 0..MaxLines, long \in 0..MaxLines }
    \cup { [kind |-> "text", lines |-> << ShortLine, LongLine, "", LongLine >>] }

\* llm_handler.py lines 558-560: a non-blank line longer than 10 characters
is_question(q) == q # "" /\ Len(q) > MinQuestionLength

\* LLMHandler.generate_recommendations, llm_handler.py lines 500-590
llm_generate_recommendations(model, outcome) ==
    IF model = "none" THEN _get_default_recommendations
    ELSE IF outcome.kind = "raises" THEN _get_default_recommendations
    ELSE IF outcome.lines # <<>>
         THEN LET questions == head(SelectSeq(outcome.lines, is_question), QuestionCount)
              IN  IF Len(questions) >= QuestionCount
                  THEN questions
                  ELSE head(questions \o _get_default_recommendations, QuestionCount)
         ELSE _get_default_recommendations

\* rec in recommendations
InList(x, list) == \E i \in 1..Len(list) : list[i] = x

\* lines 161-166: the first default question not yet in the list is added
\* until there are four
RECURSIVE ensure_four(_)
ensure_four(recs) ==
    IF Len(recs) >= QuestionCount THEN recs
    ELSE LET missing == SelectSeq(_get_default_recommendations,
                                  LAMBDA d : ~InList(d, recs))
         IN  IF missing = <<>> THEN recs ELSE ensure_four(Append(recs, missing[1]))

\* _generate_rule_based_recommendations, lines 97-172
_generate_rule_based_recommendations(user_history, tbls, customer_id) ==
    LET pregnancy_data == customer_pregnancies(tbls, customer_id)
        has_anc_visits ==
            /\ "kehamilan" \in DOMAIN tbls /\ "anc_kunjungan" \in DOMAIN tbls
            /\ pregnancy_data # <<>>
            /\ mask(tbls["anc_kunjungan"], "id_kehamilan",
                    Values(tolist(pregnancy_data, "id_kehamilan"))) # <<>>
        lab   == IF user_history.recent_lab_results # <<>>
                 THEN "Tampilkan tren hasil " \o user_history.recent_lab_results[1].test_type
                      \o " dari kunjungan sebelumnya"
                 ELSE "Apakah ada catatan hasil lab dalam riwayat saya?"
        diag  == IF user_history.recent_diagnoses # <<>>
                 THEN "Tampilkan catatan diagnosis dari kunjungan-kunjungan sebelumnya"
                 ELSE "Apakah ada riwayat diagnosis yang tercatat untuk saya?"
        visit == IF has_anc_visits
                 THEN "Tampilkan riwayat kunjungan ANC yang sudah dilakukan"
                 ELSE IF user_history.recent_visits # <<>>
                      THEN "Apakah ada catatan kunjungan kesehatan sebelumnya?"
                      ELSE "Siapa dokter yang tersedia untuk konsultasi?"
        drug  == IF user_history.recent_visits # <<>>
                 THEN "Tampilkan riwayat obat yang pernah diresepkan"
                 ELSE IF "kehamilan" \in DOMAIN tbls
                      THEN IF pregnancy_data # <<>>
                           THEN "Apakah ada catatan suplemen kehamilan yang pernah dikonsumsi?"
                           ELSE "Golongan darah saya apa?"
                      ELSE "Siapa dokter yang biasa menangani saya?"
    IN  head(ensure_four(<<lab, diag, visit, drug>>), QuestionCount)

\* generate_recommendations that hands on what the generator gave,
\* however short
generate_recommendations_unchecked(tbls, customer_id, model, outcome) ==
    IF outcome.kind # "handler_raises"
    THEN SelectSeq(outcome.lines, is_question)
    ELSE _generate_rule_based_recommendations(get_user_history_summary(tbls, customer_id),
                                              tbls, customer_id)

\* RecommendationEngine.generate_recommendations, lines 48-95.  The
\* customer table modelled here has the name column, so the handler of
\* line 92 is not entered.
generate_recommendations(tbls, customer_id, model, outcome) ==
    LET user_history == get_user_history_summary(tbls, customer_id)
        llm_recommendations == llm_generate_recommendations(model, outcome)
    IN  IF outcome.kind # "handler_raises" /\ Len(llm_recommendations) >= QuestionCount
        THEN head(llm_recommendations, QuestionCount)
        ELSE _generate_rule_based_recommendations(user_history, tbls, customer_id)

\* the candidate questions of an intent, lines 204-315
base_recommendations(intent) ==
    CASE intent \in {"hasil_lab_ringkasan", "hasil_lab_detail"} ->
           << "Bagaimana tren hasil lab saya dari waktu ke waktu?",
              "Apakah ada nilai lab yang perlu diperhatikan?",
              "Kapan sebaiknya melakukan tes lab selanjutnya?",
              "Siapa dokter yang menangani hasil lab saya?" >>
      [] intent \in {"riwayat_diagnosis", "detail_diagnosis"} ->
           << "Bagaimana perbandingan diagnosis saya dengan kunjungan sebelumnya?",
              "Apa tindakan yang diberikan untuk diagnosis ini?",
              "Obat apa yang diresepkan untuk kondisi ini?",
              "Kapan kontrol berikutnya untuk diagnosis ini?" >>
      [] intent = "jadwal_dokter" ->
           << "Siapa dokter spesialis yang tersedia untuk konsultasi?",
              "Bagaimana riwayat kunjungan saya ke dokter ini?",
              "Apa jadwal praktik dokter minggu ini?",
              "Di mana lokasi praktik dokter yang biasa saya kunjungi?" >>
      [] intent \in {"riwayat_preskripsi_obat", "detail_preskripsi_obat"} ->
           << "Berapa lama saya sudah mengonsumsi obat ini?",
              "Apa efek samping yang perlu diperhatikan?",
              "Kapan jadwal minum obat selanjutnya?",
              "Apakah ada interaksi dengan obat lain yang saya konsumsi?" >>
      [] intent = "anc_tracker" ->
           << "Bagaimana perkembangan berat badan dari kunjungan ANC sebelumnya?",
              "Apakah tekanan darah saya dalam rentang normal?",
              "Bagaimana perkembangan detak jantung janin?",
              "Kapan jadwal ANC berikutnya?" >>
      [] intent = "reminder_kontrol_kehamilan" ->
           << "Apa saja yang perlu dipersiapkan untuk kontrol berikutnya?",
              "Bagaimana riwayat kunjungan ANC saya sejauh ini?",
              "Apakah ada keluhan yang perlu saya sampaikan nanti?",
              "Dimana lokasi praktik bidan untuk kontrol?" >>
      [] intent = "riwayat_persalinan" ->
           << "Bagaimana kondisi bayi saat lahir?",
              "Apakah ada komplikasi saat persalinan?",
              "Bagaimana perbandingan dengan kehamilan sebelumnya?",
              "Apa yang perlu dipersiapkan jika hamil lagi?" >>
      [] intent = "imunisasi_tracker" ->
           << "Imunisasi apa saja yang sudah saya terima?",
              "Kapan jadwal imunisasi berikutnya?",
              "Apakah ada efek samping yang perlu diperhatikan?",
              "Dimana saya bisa mendapat imunisasi lanjutan?" >>
      [] intent = "riwayat_suplemen_kehamilan" ->
           << "Berapa lama saya sudah mengonsumsi suplemen ini?",
              "Apa manfaat suplemen yang saya konsumsi?",
              "Apakah dosis suplemen sudah sesuai?",
              "Kapan sebaiknya mengganti jenis suplemen?" >>
      [] intent = "panduan_persiapan_persalinan" ->
           << "Apa saja tanda-tanda akan melahirkan?",
              "Bagaimana cara mengatasi kontraksi?",
              "Apa yang harus dibawa ke rumah sakit?",
              "Kapan sebaiknya ke rumah sakit saat kontraksi?" >>
      [] intent = "cek_data_customer" ->
           << "Apakah data kontak saya masih aktual?",
              "Bagaimana cara memperbarui data pribadi?",
              "Siapa yang bisa dihubungi dalam keadaan darurat?",
              "Apakah alamat saya sudah sesuai?" >>
      [] intent = "cek_golongan_darah" ->
           << "Apa risiko golongan darah saya selama kehamilan?",
              "Apakah pasangan perlu cek golongan darah juga?",
              "Bagaimana cara menjaga kesehatan dengan golongan darah saya?",
              "Kapan terakhir cek golongan darah?" >>
      [] intent = "riwayat_berobat" ->
           << "Bagaimana tren kondisi kesehatan saya?",
              "Apa diagnosis yang paling sering muncul?",
              "Dokter mana yang paling sering menangani saya?",
              "Kapan terakhir saya berobat untuk keluhan serupa?" >>
      [] OTHER ->
           << "Bagaimana kondisi kesehatan saya secara keseluruhan?",
              "Ada apa saja catatan medis terbaru untuk saya?",
              "Kapan jadwal kontrol kesehatan berikutnya?",
              "Siapa dokter yang biasa menangani saya?" >>

UpperCase == "ABCDEFGHIJKLMNOPQRSTUVWXYZ"
LowerCase == "abcdefghijklmnopqrstuvwxyz"

\* str.lower() of one character
lower_char(c) ==
    IF \E i \in 1..Len(UpperCase) : SubSeq(UpperCase, i, i) = c
    THEN LET i == CHOOSE j \in 1..Len(UpperCase) : SubSeq(UpperCase, j, j) = c
         IN  SubSeq(LowerCase, i, i)
    ELSE c

\* str.lower()
RECURSIVE str_lower(_)
str_lower(s) ==
    IF s = "" THEN ""
    ELSE lower_char(SubSeq(s, 1, 1)) \o str_lower(SubSeq(s, 2, Len(s)))

\* keyword in s
str_in(keyword, s) ==
    \E i \in 1..(Len(s) - Len(keyword) + 1) : SubSeq(s, i, i + Len(keyword) - 1) = keyword

\* the keywords lines 352-370 and 462-472 look for in a question
rec_keywords == { "lab", "hasil lab", "diagnosis", "anc", "obat", "suplemen", "imunisasi",
                  "persalinan", "dokter", "jadwal", "kontrol", "kondisi", "data",
                  "golongan darah" }

\* every question get_contextual_recommendations starts from
candidate_questions ==
    UNION { Values(base_recommendations(intent)) : intent \in Intents }

\* for every candidate the keywords its lower-cased text contains
keywords_in == [rec \in candidate_questions |->
                   { k \in rec_keywords : str_in(k, str_lower(rec)) }]

\* keyword in rec.lower()
mentions(rec, keyword) == keyword \in keywords_in[rec]

\* available_data.get(key): None when the key was never set
get(available_data, key) ==
    IF key \in DOMAIN available_data THEN available_data[key] ELSE FALSE

\* _check_available_data, lines 386-456
_check_available_data(tbls, customer_id) ==
    LET pregnancy_data == customer_pregnancies(tbls, customer_id)
        pregnancy_ids  == Values(tolist(pregnancy_data, "id_kehamilan"))
        has_pregnancy  == "kehamilan" \in DOMAIN tbls /\ pregnancy_data # <<>>
        has_table      == "riwayat_berobat" \in DOMAIN tbls
        visits         == IF has_table
                          THEN mask(tbls["riwayat_berobat"], "customer_id", {customer_id})
                          ELSE <<>>
        visit_ids      == Values(tolist(visits, "visit_id"))
    IN  Entry("kehamilan" \in DOMAIN tbls, "has_pregnancy", pregnancy_data # <<>>)
        @@ Entry(has_pregnancy /\ "anc_kunjungan" \in DOMAIN tbls, "has_anc_visits",
                 mask(tbls["anc_kunjungan"], "id_kehamilan", pregnancy_ids) # <<>>)
        @@ Entry(has_pregnancy /\ "imunisasi_ibu_hamil" \in DOMAIN tbls, "has_immunizations",
                 mask(tbls["imunisasi_ibu_hamil"], "id_kehamilan", pregnancy_ids) # <<>>)
        @@ Entry(has_pregnancy /\ "persalinan" \in DOMAIN tbls, "has_deliveries",
                 mask(tbls["persalinan"], "id_kehamilan", pregnancy_ids) # <<>>)
        @@ Entry("hasil_lab" \in DOMAIN tbls, "has_lab_results",
                 mask(tbls["hasil_lab"], "customer_id", {customer_id}) # <<>>)
        @@ Entry(has_table, "has_visits", visits # <<>>)
        @@ Entry(has_table /\ visits # <<>> /\ "diagnosis" \in DOMAIN tbls, "has_diagnosis",
                 mask(tbls["diagnosis"], "visit_id", visit_ids) # <<>>)
        @@ Entry(has_table /\ visits # <<>> /\ "preskripsi" \in DOMAIN tbls,
                 "has_prescriptions",
                 mask(tbls["preskripsi"], "visit_id", visit_ids) # <<>>)

\* _is_recommendation_relevant, lines 458-475
_is_recommendation_relevant(rec, available_data) ==
    IF mentions(rec, "lab") /\ ~get(available_data, "has_lab_results") THEN FALSE
    ELSE IF mentions(rec, "diagnosis") /\ ~get(available_data, "has_diagnosis") THEN FALSE
    ELSE IF mentions(rec, "anc") /\ ~get(available_data, "has_anc_visits") THEN FALSE
    ELSE IF mentions(rec, "obat") /\ ~get(available_data, "has_prescriptions") THEN FALSE
    ELSE IF mentions(rec, "imunisasi") /\ ~get(available_data, "has_immunizations") THEN FALSE
    ELSE IF mentions(rec, "persalinan") /\ ~get(available_data, "has_deliveries") THEN FALSE
    ELSE TRUE

\* lines 348-371: whether the loop keeps a candidate
keeps(rec, available_data) ==
    /\ _is_recommendation_relevant(rec, available_data)
    /\ IF      mentions(rec, "hasil lab")  /\ get(available_data, "has_lab_results") THEN TRUE
       ELSE IF mentions(rec, "diagnosis")  /\ get(available_data, "has_diagnosis") THEN TRUE
       ELSE IF mentions(rec, "anc")        /\ get(available_data, "has_anc_visits") THEN TRUE
       ELSE IF mentions(rec, "obat")       /\ get(available_data, "has_prescriptions") THEN TRUE
       ELSE IF mentions(rec, "suplemen")   /\ get(available_data, "has_supplements") THEN TRUE
       ELSE IF mentions(rec, "imunisasi")  /\ get(available_data, "has_immunizations") THEN TRUE
       ELSE IF mentions(rec, "persalinan") /\ get(available_data, "has_deliveries") THEN TRUE
       ELSE IF mentions(rec, "dokter") THEN TRUE
       ELSE \E keyword \in {"jadwal", "kontrol", "kondisi", "data", "golongan darah"} :
                mentions(rec, keyword)

\* _get_general_followup_recommendations, lines 477-500
_get_general_followup_recommendations(intent, available_data) ==
    (IF get(available_data, "has_pregnancy")
     THEN << "Bagaimana perkembangan kehamilan saya secara keseluruhan?",
             "Ada apa saja catatan penting dari pemeriksaan kehamilan?" >>
     ELSE <<>>)
    \o (IF get(available_data, "has_visits")
        THEN << "Siapa dokter yang paling sering menangani saya?",
                "Bagaimana tren kondisi kesehatan saya?" >>
        ELSE <<>>)
    \o << "Apa data kontak dokter atau bidan saya?",
          "Golongan darah saya apa?",
          "Ada apa saja informasi penting dalam data kesehatan saya?" >>

\* lines 376-378: general questions not yet listed are added while the list
\* has fewer than four
RECURSIVE top_up(_, _)
top_up(enhanced_recs, general_recs) ==
    IF general_recs = <<>> THEN enhanced_recs
    ELSE top_up(IF ~InList(general_recs[1], enhanced_recs)
                   /\ Len(enhanced_recs) < QuestionCount
                THEN Append(enhanced_recs, general_recs[1])
                ELSE enhanced_recs,
                Tail(general_recs))

\* _enhance_recommendations_with_context, lines 329-384
_enhance_recommendations_with_context(base, intent, tbls, customer_id) ==
    LET available_data == _check_available_data(tbls, customer_id)
        enhanced_recs  == SelectSeq(base, LAMBDA rec : keeps(rec, available_data))
    IN  IF Len(enhanced_recs) < QuestionCount
        THEN top_up(enhanced_recs,
                    _get_general_followup_recommendations(intent, available_data))
        ELSE enhanced_recs

\* get_contextual_recommendations, lines 183-327
get_contextual_recommendations(tbls, intent, customer_id) ==
    head(_enhance_recommendations_with_context(base_recommendations(intent), intent,
                                               tbls, customer_id),
         QuestionCount)

\* recommendation_engine.generate_recommendations(customer_id,
\* database_handler, llm_handler)
GenerateRecommendations ==
    \E customer_id \in Customers, outcome \in LlmOutcomes :
        /\ recommendations' =
               [of          |-> "generate_recommendations",
                customer_id |-> customer_id,
                outcome     |-> outcome,
                questions   |-> generate_recommendations(tables, customer_id,
                                                         llm_model, outcome)]
        /\ UNCHANGED <<files, tables, pregnancy_knowledge, context>>
        /\ UNCHANGED <<simVars, ancVars, appVars>>

\* recommendation_engine.get_contextual_recommendations(intent, customer_id,
\* database_handler, user_input, response_content)
GetContextualRecommendations ==
    \E intent \in Intents, customer_id \in Customers :
        /\ recommendations' =
               [of          |-> "get_contextual_recommendations",
                customer_id |-> customer_id,
                intent      |-> intent,
                questions   |-> get_contextual_recommendations(tables, intent, customer_id)]
        /\ UNCHANGED <<files, tables, pregnancy_knowledge, context>>
        /\ UNCHANGED <<simVars, ancVars, appVars>>

\* the caller takes the value a call returned
ReturnToCaller ==
    /\ context' = NoResult
    /\ recommendations' = NoResult
    /\ similarity_result' = NoResult
    /\ intent_result' = NoResult
    /\ domain_result' = NoResult
    /\ UNCHANGED <<files, tables, pregnancy_knowledge>>
    /\ UNCHANGED <<similarities, encoder_fails, domain_model, pregnancy_model, general_model>>
    /\ UNCHANGED <<ancVars, appVars>>

\* DatabaseHandler.__init__, lines 11-23: the tables are the files read,
\* the knowledge text is the text of the file
InitDb ==
    /\ files \in Databases
    /\ tables = files
    /\ pregnancy_knowledge \in KnowledgeTexts
    /\ context = NoResult
    /\ recommendations = NoResult
    /\ similarities = << [intent |-> "anc_tracker", sims |-> <<60>>] >>
    /\ encoder_fails = FALSE
    /\ domain_model = "none"
    /\ pregnancy_model = "none"
    /\ general_model = "none"
    /\ similarity_result = NoResult
    /\ intent_result = NoResult
    /\ domain_result = NoResult
    /\ llm_model \in {"none", "ok"}
    /\ db_context = NoResult
    /\ anc_reminder = NoResult
    /\ llm_response = NoResult
    /\ IdleApp

Idle == NoDataResult /\ NoClassifierResult

\* the operations of the pipeline in any order, each called when the value
\* of the call before it has been taken
NextDb ==
    \/ Idle /\ GetContextForIntent
    \/ Idle /\ GetUserHistorySummary
    \/ Idle /\ GenerateRecommendations
    \/ Idle /\ GetContextualRecommendations
    \/ Idle /\ CheckSimilarity
    \/ Idle /\ ClassifyDomain
    \/ Idle /\ ClassifyPregnancyIntent
    \/ Idle /\ ClassifyGeneralIntent
    \/ ~Idle /\ ReturnToCaller

SpecDb == InitDb /\ [][NextDb]_vars

(***************************************************************************)
(* Properties of the database handler and the recommendation engine        *)
(***************************************************************************)
IsBundle == "data" \in DOMAIN context

\* ground truth of the joins, read from the files as loaded
RowsOf(table_name) ==
    IF table_name \in DOMAIN files
    THEN { files[table_name][i] : i \in 1..Len(files[table_name]) }
    ELSE {}

PregnancyIdsOf(c) == { p.id_kehamilan : p \in { r \in RowsOf("kehamilan") : r.customer_id = c } }

AncVisitIdsOf(c) ==
    { v.id_kunjungan : v \in { r \in RowsOf("anc_kunjungan") : r.id_kehamilan \in PregnancyIdsOf(c) } }

TreatmentVisitIdsOf(c) ==
    { v.visit_id : v \in { r \in RowsOf("riwayat_berobat") : r.customer_id = c } }

\* the records a key of the data mapping holds
RecordsUnder(data, key) ==
    IF key = "name" THEN {}
    ELSE IF key = "customer_info" THEN {data[key]}
    ELSE Values(data[key])

DoctorKeys == {"doctor_schedules", "doctors"}

\* a record under a key of the data mapping belongs to customer c
TiedTo(key, r, c) ==
    CASE key \in {"customer_info", "pregnancy_data", "pregnancies", "physical_conditions",
                  "lab_results", "treatments"}       -> r.customer_id = c
      [] key \in {"anc_visits", "deliveries", "immunizations"}
                                                     -> r.id_kehamilan \in PregnancyIdsOf(c)
      [] key = "supplements"                         -> r.id_kunjungan \in AncVisitIdsOf(c)
      [] key \in {"diagnoses", "prescriptions"}      -> r.visit_id \in TreatmentVisitIdsOf(c)
      [] key \in DoctorKeys                          -> FALSE

\* C11: for an intent string the dispatch of get_context_for_intent does
\* not handle, the call returns a bundle (it raises nothing) whose data
\* mapping is empty and whose knowledge_base is empty.
C11_UnknownIntentEmpty ==
    (IsBundle /\ context.intent \in UnknownIntents) =>
        /\ "intent_description" \in DOMAIN context
        /\ context.data = EmptyDict
        /\ context.knowledge_base = EmptyDict

C11_Witness ==
    /\ IsBundle
    /\ context.intent = "Jadwal_Dokter"
    /\ "jadwal_dokter" \in DOMAIN tables /\ "customer" \in DOMAIN tables
    /\ pregnancy_knowledge # ""
    /\ context.data = EmptyDict
    /\ context.knowledge_base = EmptyDict

\* C12, as stated: for every dispatched intent and every customer c, every
\* record in the data of get_context_for_intent(intent, c) is tied to c,
\* directly or through the joins; no retrieval returns rows that are not
\* filtered to c.
C12_AllRecordsOfCustomer ==
    (IsBundle /\ context.intent \in table_intents) =>
        \A key \in DOMAIN context.data :
            \A r \in RecordsUnder(context.data, key) :
                TiedTo(key, r, context.customer_id)

\* C12, amended: every record in the data of get_context_for_intent(intent,
\* c) is tied to c, directly or through the joins, except the records of
\* doctor_schedules and doctors (intents jadwal_dokter and detail_dokter):
\* these are all the rows of the jadwal_dokter and dokter tables, whichever
\* customer asks.
C12_CustomerRecordsOnly ==
    (IsBundle /\ context.intent \in table_intents) =>
        /\ \A key \in DOMAIN context.data \ DoctorKeys :
               \A r \in RecordsUnder(context.data, key) :
                   TiedTo(key, r, context.customer_id)
        /\ "doctor_schedules" \in DOMAIN context.data =>
               /\ context.intent = "jadwal_dokter"
               /\ Values(context.data.doctor_schedules) = RowsOf("jadwal_dokter")
               /\ Len(context.data.doctor_schedules) = Len(files["jadwal_dokter"])
        /\ "doctors" \in DOMAIN context.data =>
               /\ context.intent \in {"jadwal_dokter", "detail_dokter"}
               /\ context.data.doctors = files["dokter"]

C12_Witness ==
    /\ IsBundle
    /\ context.intent = "riwayat_suplemen_kehamilan"
    /\ context.data.supplements # <<>>
    /\ Len(context.data.supplements) < Len(files["suplemen_ibu_hamil"])
    /\ \A r \in Values(context.data.supplements) :
           r.id_kunjungan \in AncVisitIdsOf(context.customer_id)

\* the date column a list of the data mapping is meant to be ordered by
DateField(key) ==
    CASE key = "anc_visits"          -> "tanggal_kunjungan"
      [] key = "deliveries"          -> "tanggal_lahir"
      [] key = "supplements"         -> "tanggal_kunjungan"
      [] key = "lab_results"         -> "test_date"
      [] key = "prescriptions"       -> "start_date"
      [] key = "diagnoses"           -> "created_at"
      [] key = "treatments"          -> "visit_date"
      [] key = "doctor_schedules"    -> "practice_date"
      [] key = "immunizations"       -> "tanggal_pemberian"
      [] key = "physical_conditions" -> "tanggal_pemeriksaan"
      [] key \in {"pregnancy_data", "pregnancies"} -> "tanggal_hpht"

\* keys of the data mapping that hold a list of dated records
DatedLists == { "anc_visits", "deliveries", "supplements", "lab_results", "prescriptions",
                "diagnoses", "treatments", "doctor_schedules", "immunizations",
                "physical_conditions", "pregnancy_data", "pregnancies" }

LatestFirst(list, by) ==
    \A i \in 1..(Len(list) - 1) : list[i][by] >= list[i + 1][by]

\* C13: every record list a retrieval procedure of get_context_for_intent
\* returns is in non-increasing order of its date field, so that its first
\* element is the most recent record.
C13_LatestFirst ==
    IsBundle =>
        \A key \in DOMAIN context.data \cap DatedLists :
            LatestFirst(context.data[key], DateField(key))

\* the intents for which the bundle carries knowledge-base text
KnowledgeIntents ==
    { intent \in Intents :
        \E c \in Customers :
            get_context_for_intent(tables, pregnancy_knowledge, intent, c).knowledge_base
                # EmptyDict }

\* what a bundle holds when the intent is served from the knowledge base
\* and when it is not
KnowledgeBypass ==
    IsBundle =>
        IF context.intent \in KnowledgeIntents
        THEN /\ context.data = EmptyDict
             /\ context.knowledge_base = ("pregnancy_info" :> pregnancy_knowledge)
        ELSE context.knowledge_base = EmptyDict

\* C14, as stated: exactly two intents of the dispatch bypass table
\* retrieval (data stays empty) and set knowledge_base['pregnancy_info'] to
\* the loaded guidance text unchanged; for every other intent
\* knowledge_base is empty.
C14_TwoKnowledgeIntents ==
    /\ Cardinality(KnowledgeIntents) = 2
    /\ KnowledgeBypass

\* C14, amended: exactly one intent of the dispatch,
\* panduan_persiapan_persalinan, bypasses table retrieval (data stays
\* empty) and sets knowledge_base['pregnancy_info'] to the loaded guidance
\* text unchanged; for every other intent knowledge_base is empty.
C14_OneKnowledgeIntent ==
    /\ KnowledgeIntents = {"panduan_persiapan_persalinan"}
    /\ KnowledgeBypass

C14_Witness ==
    /\ IsBundle
    /\ context.intent = "panduan_persiapan_persalinan"
    /\ pregnancy_knowledge # ""
    /\ context.knowledge_base.pregnancy_info = pregnancy_knowledge
    /\ "hasil_lab" \in DOMAIN tables

\* C15: no operation of the pipeline changes the loaded tables or the
\* similarity index; so get_context_for_intent(intent, customer) returns
\* the bundle a handler that has just loaded the files returns, whatever
\* was called before.
C15_ReadOnlyTables ==
    /\ [](/\ tables = files
          /\ IsBundle => context = get_context_for_intent(files, pregnancy_knowledge,
                                                          context.intent, context.customer_id))
    /\ [][tables' = tables /\ similarities' = similarities]_vars

C15_Witness ==
    /\ IsBundle
    /\ context.intent = "jadwal_dokter"
    /\ "jadwal_dokter" \in DOMAIN tables
    /\ context.data.doctor_schedules # tables["jadwal_dokter"]
    /\ tables = files

\* C16: generate_recommendations returns exactly 4 questions for every
\* customer and every outcome of the generator: unavailable, raising, an
\* empty text, fewer than 4 lines longer than 10 characters, 4 or more.
C16_FourQuestions ==
    (recommendations # NoResult /\ recommendations.of = "generate_recommendations") =>
        /\ Len(recommendations.questions) = QuestionCount
        /\ \A i \in 1..QuestionCount : recommendations.questions[i] # ""

\* a customer without lab results, diagnoses, ANC visits and treatment
\* visits, and an answer of three usable lines
C16_Witness ==
    /\ recommendations # NoResult
    /\ recommendations.of = "generate_recommendations"
    /\ llm_model = "ok"
    /\ recommendations.outcome.kind = "text"
    /\ Len(SelectSeq(recommendations.outcome.lines, is_question)) = QuestionCount - 1
    /\ LET available_data == _check_available_data(files, recommendations.customer_id)
       IN  /\ ~get(available_data, "has_lab_results")
           /\ ~get(available_data, "has_diagnosis")
           /\ ~get(available_data, "has_anc_visits")
           /\ ~get(available_data, "has_visits")
    /\ Len(recommendations.questions) = QuestionCount

\* C17: get_contextual_recommendations returns exactly 4 questions for
\* every intent, known or unknown, and every combination of the customer's
\* data-availability flags.
C17_FourContextual ==
    (recommendations # NoResult /\ recommendations.of = "get_contextual_recommendations") =>
        Len(recommendations.questions) = QuestionCount

(***************************************************************************)
(* The texts of the reminder's answers that carry no value of the data     *)
(* (lines 316-318, 385-392, 400, 406, 498), without their pictographs,     *)
(* bullet characters and line breaks.                                      *)
(***************************************************************************)
message_text(message) ==
    CASE message = "register" ->
           "Belum ada data kehamilan yang tercatat untuk Anda. Jika Anda sedang hamil, silakan lakukan pendaftaran kehamilan dan kunjungan ANC pertama untuk memulai pemantauan kesehatan ibu dan janin."
      [] message = "first_visit_guideline" ->
           "Belum ada riwayat kunjungan ANC yang tercatat untuk kehamilan Anda saat ini. **Rekomendasi: Lakukan kunjungan ANC pertama secepatnya** Sangat penting untuk melakukan pemeriksaan ANC rutin sesuai jadwal: Trimester 1 (0-12 minggu): minimal 1 kali kunjungan Trimester 2 (13-28 minggu): setiap 4 minggu sekali Trimester 3 (29-40 minggu): setiap 2 minggu sekali, dan setiap minggu setelah 36 minggu"
      [] message = "incomplete_visit" ->
           "Data kunjungan ANC tidak lengkap. Silakan hubungi bidan untuk informasi jadwal kontrol berikutnya."
      [] message = "invalid_visit_date" ->
           "Format tanggal kunjungan tidak valid. Silakan hubungi bidan untuk informasi jadwal kontrol berikutnya."
      [] message = "error" ->
           "Terjadi kesalahan dalam menghitung jadwal ANC. Silakan hubungi bidan untuk informasi jadwal kontrol berikutnya."
      [] OTHER -> ""

\* the answer asks the user to contact the midwife and names no date
ContactProvider ==
    /\ str_in("hubungi bidan", message_text(anc_reminder.message))
    /\ "next_visit_date" \notin DOMAIN anc_reminder

\* an active pregnancy without delivery whose latest ANC visit has a week
LatestVisitCase ==
    /\ anc_reminder # NoResult
    /\ db_context.pregnancy_data # <<>>
    /\ db_context.anc_visits # <<>>
    /\ find_delivery(db_context.deliveries, db_context.pregnancy_data[1].id_kehamilan) = <<>>
    /\ db_context.pregnancy_data[1].status_kehamilan \in {"Berjalan", "aktif"}
    /\ db_context.anc_visits[1].usia_kehamilan > 0

BadDate == {"empty", "nan", "malformed"}

\* C22 as stated: whenever the date the reminder reads (tanggal_hpht when
\* there is no visit, else the latest visit's tanggal_kunjungan) is
\* missing or malformed, the answer is a message asking the user to contact
\* their provider, without a computed date.
C22_ContactProvider ==
    /\ (FirstVisitCase /\ db_context.pregnancy_data[1].tanggal_hpht.kind \in BadDate)
           => ContactProvider
    /\ (LatestVisitCase /\ db_context.anc_visits[1].tanggal_kunjungan.kind \in BadDate)
           => ContactProvider

\* C22: the reminder always returns a text.  A missing or malformed
\* tanggal_kunjungan of the latest visit gives a message asking the user to
\* contact the midwife, without a date.  Without a visit, an absent, empty
\* or malformed tanggal_hpht gives the general first-visit guideline, which
\* names no date and does not ask to contact anyone, and a tanggal_hpht that
\* is not a string gives the error notice asking to contact the midwife.
C22_DateFailure ==
    /\ anc_reminder # NoResult => "message" \in DOMAIN anc_reminder
    /\ (LatestVisitCase /\ db_context.anc_visits[1].tanggal_kunjungan.kind \in BadDate)
           => ContactProvider
    /\ FirstVisitCase =>
           LET hpht == db_context.pregnancy_data[1].tanggal_hpht IN
           /\ hpht.kind \in {"empty", "malformed"} =>
                 /\ anc_reminder.message = "first_visit_guideline"
                 /\ ~str_in("hubungi", message_text(anc_reminder.message))
                 /\ "next_visit_date" \notin DOMAIN anc_reminder
           /\ hpht.kind = "nan" =>
                 /\ anc_reminder.message = "error"
                 /\ ContactProvider

\* no visit and a malformed tanggal_hpht: the guideline
C22_Witness ==
    /\ FirstVisitCase
    /\ db_context.pregnancy_data[1].tanggal_hpht = Malformed
    /\ anc_reminder.message = "first_visit_guideline"

\* a latest visit at a positive week, dated today or earlier, with a schedule
DatedSchedule ==
    /\ Scheduled
    /\ LastWeek > 0
    /\ db_context.anc_visits[1].tanggal_kunjungan.days >= 0

\* C26: for a schedule from a latest visit at a positive week dated today or
\* earlier, the target week is never before the current week; the overdue
\* label, target = current week, and tomorrow's date with the warning go
\* together; in every other case the date is at least 7 days after today.
C26_OverdueEquivalence ==
    DatedSchedule =>
        LET overdue_label == anc_reminder.interval_name \in OverdueLabels
            due_now       == anc_reminder.target_weeks = anc_reminder.current_pregnancy_weeks
            tomorrow      == anc_reminder.next_visit_date = 1 /\ anc_reminder.urgency_note
        IN  /\ anc_reminder.target_weeks >= anc_reminder.current_pregnancy_weeks
            /\ overdue_label <=> due_now
            /\ due_now <=> tomorrow
            /\ ~due_now => anc_reminder.next_visit_date >= 7

\* latest visit at week 30, two weeks ago: week 32 today, overdue, tomorrow
C26_Witness ==
    /\ DatedSchedule
    /\ LastWeek = 30
    /\ db_context.anc_visits[1].tanggal_kunjungan.days = 14
    /\ anc_reminder.interval_name = "kontrol trimester 3 (terlambat)"
    /\ anc_reminder.target_weeks = 32
    /\ anc_reminder.next_visit_date = 1
    /\ anc_reminder.urgency_note

\* C27: for a schedule that is not overdue, the recommended date is the
\* latest visit's date plus 7 * (target week - last week) days, so that
\* from week 13 on it is never later than the band's cadence (4, 2, 1 weeks)
\* after the latest visit.  Dates count in days after today; the visit lies
\* `days` days before today.
C27_DateFromVisit ==
    (DatedSchedule /\ ~anc_reminder.urgency_note) =>
        LET days_elapsed == db_context.anc_visits[1].tanggal_kunjungan.days IN
        /\ anc_reminder.next_visit_date =
              7 * (anc_reminder.target_weeks - LastWeek) - days_elapsed
        /\ CurrentWeek > 12 =>
              anc_reminder.next_visit_date + days_elapsed <= 7 * Cadence

(***************************************************************************)
(* LLMHandler._build_prompt and generate_response as a state machine: one  *)
(* classification result, one context bundle, and the call.                *)
(***************************************************************************)
\* context_instruction with the medium band closed at 0.2
context_instruction_inclusive(top_predictions) ==
    IF Len(top_predictions) > 1
    THEN LET confidence_gap == top_predictions[1].confidence - top_predictions[2].confidence
         IN  IF confidence_gap > 50
             THEN "Fokus penuh pada PRIMARY INTENT untuk menjawab"
             ELSE IF confidence_gap >= 20
             THEN "Fokus pada PRIMARY INTENT, tapi pertimbangkan kemungkinan ALTERNATIVE INTENT jika relevan"
             ELSE "Pertimbangkan kedua intent yang mungkin dan pilih jawaban yang paling relevan dengan pertanyaan"
    ELSE "Jawab berdasarkan intent yang terdeteksi"

\* lines 120-140: the directive chosen from the confidence gap
context_instruction(top_predictions) ==
    IF Len(top_predictions) > 1
    THEN LET confidence_gap == top_predictions[1].confidence - top_predictions[2].confidence
         IN  IF confidence_gap > 50
             THEN "Fokus penuh pada PRIMARY INTENT untuk menjawab"
             ELSE IF confidence_gap > 20
             THEN "Fokus pada PRIMARY INTENT, tapi pertimbangkan kemungkinan ALTERNATIVE INTENT jika relevan"
             ELSE "Pertimbangkan kedua intent yang mungkin dan pilih jawaban yang paling relevan dengan pertanyaan"
    ELSE "Jawab berdasarkan intent yang terdeteksi"

\* _build_prompt, lines 86-187: what the prompt is made of
_build_prompt(intent, data, top_predictions) ==
    IF intent = "reminder_kontrol_kehamilan"
    THEN [intent |-> intent, anc_reminder |-> _calculate_anc_reminder(data)]      \* line 94
    ELSE [intent |-> intent, top_predictions |-> top_predictions,
          context_instruction |-> context_instruction(top_predictions)]

\* generate_response, lines 63-84, with what it does on the way: the prompt
\* it builds (line 72) and the number of model.generate_content calls (line 75)
generate_response_calls(model, intent, data, top_predictions, llm_out) ==
    IF model = "none" \/ intent = "reminder_kontrol_kehamilan"
    THEN [response |-> generate_response(model, intent, data, llm_out),
          prompt |-> None, generate_content |-> 0]
    ELSE [response |-> generate_response(model, intent, data, llm_out),
          prompt |-> _build_prompt(intent, data, top_predictions),
          generate_content |-> 1]

\* top-2 confidences of a softmax, in hundredths: conf1 >= conf2, sum <= 1
TopTwo == { c \in (0..100) \X (0..100) : c[1] >= c[2] /\ c[1] + c[2] <= 100 }

\* classification results: the model path with two predictions, the
\* fallback path with one
LlmIntentResults ==
    { [intent |-> i, confidence |-> c[1],
       predictions |-> << [intent |-> i, confidence |-> c[1], rank |-> 1],
                          [intent |-> "anc_tracker", confidence |-> c[2], rank |-> 2] >>] :
        i \in {"reminder_kontrol_kehamilan", "riwayat_diagnosis"}, c \in TopTwo }
    \cup { [intent |-> i, confidence |-> c,
            predictions |-> << [intent |-> i, confidence |-> c, rank |-> 1] >>] :
             i \in {"reminder_kontrol_kehamilan", "cek_data_customer"},
             c \in {ConfidenceError, ConfidenceNoMatch, similarity_threshold} }

\* the reminder bundles of the session's customers
LlmContexts == { customer_anc_context(c) : c \in Customers }

GenerateResponse ==
    /\ llm_response = NoResult
    /\ \E llm_out \in IF llm_model = "ok" /\ intent_result.intent # "reminder_kontrol_kehamilan"
                      THEN {"text", "empty", "raises"} ELSE {"text"} :
          llm_response' = generate_response_calls(llm_model, intent_result.intent, db_context,
                                                  intent_result.predictions, llm_out)
    /\ UNCHANGED <<llm_model, db_context, anc_reminder>>
    /\ UNCHANGED simVars
    /\ UNCHANGED appVars
    /\ UNCHANGED dataVars

InitLlm ==
    /\ similarities = <<>>
    /\ encoder_fails = FALSE
    /\ domain_model = "none"
    /\ pregnancy_model = "none"
    /\ general_model = "none"
    /\ similarity_result = NoResult
    /\ domain_result = NoResult
    /\ intent_result \in LlmIntentResults
    /\ llm_model \in {"ok", "none"}
    /\ db_context \in LlmContexts
    /\ anc_reminder = NoResult
    /\ llm_response = NoResult
    /\ IdleApp
    /\ IdleData

NextLlm == GenerateResponse

SpecLlm == InitLlm /\ [][NextLlm]_vars

\* a prompt with the gap directive was built from two predictions
GapPrompt ==
    /\ llm_response # NoResult
    /\ llm_response.prompt # None
    /\ "context_instruction" \in DOMAIN llm_response.prompt
    /\ Len(intent_result.predictions) > 1

confidence_gap == intent_result.predictions[1].confidence - intent_result.predictions[2].confidence

TrustPrimary   == "Fokus penuh pada PRIMARY INTENT untuk menjawab"
ConsiderOther  == "Fokus pada PRIMARY INTENT, tapi pertimbangkan kemungkinan ALTERNATIVE INTENT jika relevan"
WeighBoth      == "Pertimbangkan kedua intent yang mungkin dan pilih jawaban yang paling relevan dengan pertanyaan"

\* C21 as stated: with two predictions the directive is 'trust primary
\* only' for a gap above 0.5, 'primary, consider alternate' for a gap from
\* 0.2 to 0.5, both bounds included, and 'ambiguous, weigh both' below 0.2.
C21_GapBandsClosed ==
    GapPrompt =>
        llm_response.prompt.context_instruction =
            IF confidence_gap > 50 THEN TrustPrimary
            ELSE IF confidence_gap >= 20 THEN ConsiderOther
            ELSE WeighBoth

\* C21: with two predictions the directive is 'trust primary only' for a
\* gap above 0.5, 'primary, consider alternate' for a gap above 0.2 and up
\* to 0.5, and 'ambiguous, weigh both' for a gap up to and including 0.2.
C21_GapBands ==
    GapPrompt =>
        /\ confidence_gap > 50 => llm_response.prompt.context_instruction = TrustPrimary
        /\ (20 < confidence_gap /\ confidence_gap <= 50)
              => llm_response.prompt.context_instruction = ConsiderOther
        /\ confidence_gap <= 20 => llm_response.prompt.context_instruction = WeighBoth

\* confidences 0.5 and 0.3: a gap of exactly 0.2 is ambiguous
C21_Witness ==
    /\ GapPrompt
    /\ intent_result.predictions[1].confidence = 50
    /\ intent_result.predictions[2].confidence = 30
    /\ llm_response.prompt.context_instruction = WeighBoth

\* C24: for the intent reminder_kontrol_kehamilan, generate_response returns
\* exactly what _calculate_anc_reminder computes from the context and never
\* calls the generator, whether the generator is available or not.
C24_ReminderWithoutGenerator ==
    (llm_response # NoResult /\ intent_result.intent = "reminder_kontrol_kehamilan") =>
        /\ llm_response.response =
              [kind |-> "anc_reminder", detail |-> _calculate_anc_reminder(db_context)]
        /\ llm_response.generate_content = 0

(***************************************************************************)
(* Properties of the session's contextual recommendations and of the       *)
(* intents a turn hands to the DatabaseHandler.                            *)
(***************************************************************************)
\* the last call of the recorded turn
LastCall == last_turn.calls[Len(last_turn.calls)]

\* C29: after any sequence of logins, turns (valid, out of scope, failing),
\* history clears and logouts, the contextual recommendations are empty or
\* were computed by the most recent turn, for the user logged in now.
C29_FreshRecommendations ==
    contextual_recommendations # <<>> =>
        /\ authenticated
        /\ contextual_recommendations[1].customer_id = user_data.customer_id
        /\ last_turn # NoResult
        /\ ~last_turn.raised
        /\ LastCall = Call("get_contextual_recommendations",
                           contextual_recommendations[1].intent)

\* the classifier the recorded turn called, and so the domain it chose
TurnDomain ==
    IF \E i \in 1..Len(last_turn.calls) : last_turn.calls[i].fn = "classify_pregnancy_intent"
    THEN "KEHAMILAN" ELSE "UMUM"

Vocabulary(domain) ==
    IF domain = "KEHAMILAN"
    THEN { pregnancy_intents[i] : i \in 1..Len(pregnancy_intents) }
    ELSE { general_intents[i] : i \in 1..Len(general_intents) }

\* the intents get_context_for_intent has a branch for
Dispatched == table_intents \cup {"panduan_persiapan_persalinan"}

\* the intents the recorded turn passed to get_context_for_intent
FetchedIntents ==
    { last_turn.calls[i].arg :
        i \in { j \in 1..Len(last_turn.calls) :
                  last_turn.calls[j].fn = "get_context_for_intent" } }

DataCategories == {"lab", "diagnosis", "anc", "obat", "suplemen", "imunisasi", "persalinan"}

\* customer c has records of the category, by the joins of the files
HasRecords(category, c) ==
    CASE category = "lab" ->
           \E r \in RowsOf("hasil_lab") : r.customer_id = c
      [] category = "diagnosis" ->
           \E r \in RowsOf("diagnosis") : r.visit_id \in TreatmentVisitIdsOf(c)
      [] category = "anc" ->
           \E r \in RowsOf("anc_kunjungan") : r.id_kehamilan \in PregnancyIdsOf(c)
      [] category = "obat" ->
           \E r \in RowsOf("preskripsi") : r.visit_id \in TreatmentVisitIdsOf(c)
      [] category = "suplemen" ->
           \E r \in RowsOf("suplemen_ibu_hamil") : r.id_kunjungan \in AncVisitIdsOf(c)
      [] category = "imunisasi" ->
           \E r \in RowsOf("imunisasi_ibu_hamil") : r.id_kehamilan \in PregnancyIdsOf(c)
      [] category = "persalinan" ->
           \E r \in RowsOf("persalinan") : r.id_kehamilan \in PregnancyIdsOf(c)

\* C25: a candidate question of the intent that mentions a data category by
\* keyword (lab, diagnosis, anc, obat, suplemen, imunisasi, persalinan) is
\* dropped when the customer has no records of that category and kept when
\* the customer has some.
C25_KeptIffRecords ==
    (recommendations # NoResult /\ recommendations.of = "get_contextual_recommendations") =>
        LET candidates == base_recommendations(recommendations.intent) IN
        \A i \in 1..Len(candidates) :
            \A category \in DataCategories :
                mentions(candidates[i], category) =>
                    (InList(candidates[i], recommendations.questions)
                         <=> HasRecords(category, recommendations.customer_id))

(***************************************************************************)
(* The reminder turn: get_context_for_intent('reminder_kontrol_kehamilan') *)
(* and _calculate_anc_reminder on the bundle it returns (chatbot_app.py    *)
(* lines 576-600, llm_handler.py line 69).  The tables' dates number the   *)
(* days from today (0), earlier days negative.  Only kehamilan,            *)
(* anc_kunjungan and persalinan are read by this retrieval.                *)
(***************************************************************************)
\* a date cell of a retrieved row as the reminder reads it: a '%Y-%m-%d'
\* string, here the number of days it lies before today
date_string(day) == DateStr(0 - day)

date_strings(rows, column) ==
    [i \in 1..Len(rows) |-> [rows[i] EXCEPT ![column] = date_string(rows[i][column])]]

\* llm_handler.py lines 310-312: db_context.get('data', {}).get(key, [])
reminder_data(bundle) ==
    [anc_visits     |-> IF "anc_visits" \in DOMAIN bundle.data
                        THEN date_strings(bundle.data.anc_visits, "tanggal_kunjungan")
                        ELSE <<>>,
     pregnancy_data |-> IF "pregnancy_data" \in DOMAIN bundle.data
                        THEN date_strings(bundle.data.pregnancy_data, "tanggal_hpht")
                        ELSE <<>>,
     deliveries     |-> IF "deliveries" \in DOMAIN bundle.data
                        THEN date_strings(bundle.data.deliveries, "tanggal_lahir")
                        ELSE <<>>]

\* C001's earlier pregnancy (LMP 400 days ago), C001's pregnancy of today
\* (LMP 20 weeks ago) and a pregnancy of C002
EarlierPregnancy(status) ==
    [id_kehamilan |-> 1, customer_id |-> "C001", tanggal_hpht |-> 0 - 400,
     status_kehamilan |-> status]

LaterPregnancy ==
    [id_kehamilan |-> 2, customer_id |-> "C001", tanggal_hpht |-> 0 - 140,
     status_kehamilan |-> "Berjalan"]

OtherPregnancy ==
    [id_kehamilan |-> 3, customer_id |-> "C002", tanggal_hpht |-> 0 - 100,
     status_kehamilan |-> "Berjalan"]

\* kehamilan.csv, in row order
PregnancyTables ==
    UNION { { <<LaterPregnancy>>, <<e>>, <<e, LaterPregnancy>>, <<LaterPregnancy, e>>,
              <<OtherPregnancy, e, LaterPregnancy>>, <<LaterPregnancy, OtherPregnancy, e>> } :
            e \in { EarlierPregnancy(s) : s \in {"Selesai", "Berjalan"} } }

\* the last visit of the earlier pregnancy, at week 36, 160 days ago
EarlierVisit ==
    [id_kunjungan |-> 1, id_kehamilan |-> 1, tanggal_kunjungan |-> 0 - 160,
     usia_kehamilan |-> 36]

\* a visit of the later pregnancy, days_ago days ago, in the week it was then
LaterVisit(days_ago) ==
    [id_kunjungan |-> 2, id_kehamilan |-> 2, tanggal_kunjungan |-> 0 - days_ago,
     usia_kehamilan |-> (140 - days_ago) \div 7]

OtherVisit ==
    [id_kunjungan |-> 3, id_kehamilan |-> 3, tanggal_kunjungan |-> 0 - 1,
     usia_kehamilan |-> 14]

\* anc_kunjungan.csv, in row order
VisitTables ==
    { <<>>, <<EarlierVisit>>, <<OtherVisit>>, <<OtherVisit, EarlierVisit>> }
    \cup UNION { { <<LaterVisit(d)>>, <<EarlierVisit, LaterVisit(d)>>,
                   <<LaterVisit(d), OtherVisit, EarlierVisit>> } : d \in 0..MaxDays }

\* persalinan.csv: the earlier pregnancy ended in a delivery 120 days ago
DeliveryTables ==
    { <<>>, << [id_persalinan |-> 1, id_kehamilan |-> 1, tanggal_lahir |-> 0 - 120] >> }

ReminderDatabases ==
    { [kehamilan |-> k, anc_kunjungan |-> v, persalinan |-> d] :
        k \in PregnancyTables, v \in VisitTables, d \in DeliveryTables }

\* the reminder turn of a customer
ReminderTurn ==
    /\ anc_reminder = NoResult
    /\ \E customer_id \in Customers :
          LET bundle == get_context_for_intent(tables, pregnancy_knowledge,
                                               "reminder_kontrol_kehamilan", customer_id)
          IN  /\ context' = bundle
              /\ db_context' = reminder_data(bundle)
              /\ anc_reminder' = _calculate_anc_reminder(reminder_data(bundle))
    /\ tables' = tables_after_retrieval(tables, "reminder_kontrol_kehamilan")
    /\ UNCHANGED <<llm_model, llm_response>>
    /\ UNCHANGED <<files, pregnancy_knowledge, recommendations>>
    /\ UNCHANGED simVars
    /\ UNCHANGED appVars

InitRem ==
    /\ files \in ReminderDatabases
    /\ tables = files
    /\ pregnancy_knowledge = ""
    /\ context = NoResult
    /\ recommendations = NoResult
    /\ llm_model = "ok"
    /\ db_context = NoResult
    /\ anc_reminder = NoResult
    /\ llm_response = NoResult
    /\ IdleSim
    /\ IdleApp

NextRem == ReminderTurn

SpecRem == InitRem /\ [][NextRem]_vars

\* the customer's pregnancies, as the file has them
PregnanciesOf(c) == { p \in RowsOf("kehamilan") : p.customer_id = c }

\* a reminder was computed for a customer with a pregnancy record
Evaluated == anc_reminder # NoResult /\ db_context.pregnancy_data # <<>>

\* C23: with several pregnancy records, the pregnancy the reminder
\* evaluates is the customer's most recent one, whatever the row order of
\* the table; the completion message is never given for a delivered older
\* pregnancy while a newer pregnancy is active.
C23_MostRecentPregnancy ==
    Evaluated =>
        LET current_pregnancy == db_context.pregnancy_data[1]
            newer == { p \in PregnanciesOf(context.customer_id) :
                         0 - p.tanggal_hpht < current_pregnancy.tanggal_hpht.days }
        IN  /\ newer = {}
            /\ anc_reminder.message = "completed" =>
                  ~\E p \in newer : Lower(p.status_kehamilan) \in active_statuses

\* C28: the visit the reminder takes as the latest one, anc_visits[0],
\* belongs to the pregnancy it evaluates as current; a visit of another
\* pregnancy is never used to compute the current week.
C28_VisitOfCurrentPregnancy ==
    (Evaluated /\ db_context.anc_visits # <<>>) =>
        /\ db_context.anc_visits[1].id_kehamilan = db_context.pregnancy_data[1].id_kehamilan
        /\ Scheduled =>
              \E v \in RowsOf("anc_kunjungan") :
                  /\ v.id_kehamilan = db_context.pregnancy_data[1].id_kehamilan
                  /\ v.usia_kehamilan = anc_reminder.last_pregnancy_weeks

====
